---- MODULE Spec2Model ----
(***************************************************************************)
(* Model of the geometry core of the OSM context generator                  *)
(* (utils/utils_geometry.py, utils/utils_other.py).                         *)
(*                                                                          *)
(* The functions of the geometry core are pure: the state of the model is   *)
(* the function that was called (fn), the arguments it was called with      *)
(* (args) and what it returned or raised (ret).  Python's None and raised   *)
(* exceptions are records [kind |-> "None"], [kind |-> "IndexError"].       *)
(* Python lists are sequences; Python's 0-based positions are kept in the   *)
(* definitions and shifted by one only where a sequence is read.            *)
(***************************************************************************)
EXTENDS Integers, Sequences, FiniteSets, TLC

VARIABLES fn, args, ret

vars == <<fn, args, ret>>

(***************************************************************************)
(* Bounds of the model.                                                     *)
(***************************************************************************)
\* longest ring (list of points) drawn from the grid
MaxRing == 3
\* largest stride handed to fix_orientation
MaxCoef == 2
\* most triangles the triangulation library returns beyond one per site
MaxExtraTriangles == 1
\* longest node-id list of a way
MaxIds == 5
\* number of distinct node ids
MaxNode == 3

(***************************************************************************)
(* Python list helpers.                                                     *)
(***************************************************************************)
None == [kind |-> "None"]

\* s[i] of a Python list
At(s, i) == s[i + 1]

\* list(range(a, b))
Range(a, b) == [i \in 1..(IF b > a THEN b - a ELSE 0) |-> a + i - 1]

\* list.reverse()
Reverse(s) == [i \in 1..Len(s) |-> s[Len(s) + 1 - i]]

\* x in s
In(x, s) == \E i \in 1..Len(s) : s[i] = x

\* s[i:]
SliceFrom(s, i) == IF i >= Len(s) THEN <<>> ELSE SubSeq(s, i + 1, Len(s))

\* all lists over S of length lo..hi
SeqsOf(S, lo, hi) == UNION {[1..n -> S] : n \in lo..hi}

RECURSIVE Flatten(_)
Flatten(ss) == IF ss = <<>> THEN <<>> ELSE Head(ss) \o Flatten(Tail(ss))

\* the concatenation of lists that all have w elements
FlattenW(ss, w) ==
    [k \in 1..(Len(ss) * w) |-> ss[((k - 1) \div w) + 1][((k - 1) % w) + 1]]

(***************************************************************************)
(* Points and rings the functions are called with.                          *)
(***************************************************************************)
Pt(px, py) == [x |-> px, y |-> py]

\* a small grid; (0,0),(2,0),(0,2) is counter-clockwise
GridPoints == {Pt(0, 0), Pt(2, 0), Pt(0, 2)}

\* the clockwise square of the unit tests (fixture coords)
Square == <<Pt(5, 5), Pt(5, -5), Pt(-5, -5), Pt(-5, 5)>>

\* the clockwise square of tests_fix_orientation (fixture point_tuple_list)
SquareTuples == <<<<4, 4>>, <<4, -4>>, <<-4, -4>>, <<-4, 4>>>>

\* the 8-point clockwise square of tests_fix_orientation_coefficient
Square8Tuples ==
    <<<<4, 4>>, <<4, 0>>, <<4, -4>>, <<0, -4>>,
      <<-4, -4>>, <<-4, 0>>, <<-4, 4>>, <<0, 4>>>>

\* the void of the unit tests (fixture coords_inner)
SquareVoid == <<Pt(2, 2), Pt(2, -2), Pt(-2, -2), Pt(-2, 2)>>

\* [[c["x"], c["y"]] for c in coords]
Tuples(coords) == [i \in 1..Len(coords) |-> <<coords[i].x, coords[i].y>>]

Rings == SeqsOf(GridPoints, 0, MaxRing) \cup {Square}

TupleLists == {Tuples(r) : r \in Rings} \cup {SquareTuples, Square8Tuples}

(***************************************************************************)
(* fix_orientation                                                          *)
(***************************************************************************)
\* (pt2[0] - pt[0]) * (pt2[1] + pt[1])
ShoelaceTerm(pt, pt2) == (pt2[1] - pt[1]) * (pt2[2] + pt[2])

\* the position paired with position k: k + 1, and 0 for the last one
NextIndex(n, k) == IF k = n - 1 THEN 0 ELSE k + 1

\* sum_orientation after the iterations k..len-1 of the loop
RECURSIVE SumOrientationFrom(_, _, _)
SumOrientationFrom(pts, coef, k) ==
    IF k >= Len(pts) THEN 0
    ELSE ShoelaceTerm(At(pts, k * coef), At(pts, NextIndex(Len(pts), k) * coef))
         + SumOrientationFrom(pts, coef, k + 1)

sum_orientation(pts, coef) == SumOrientationFrom(pts, coef, 0)

\* point_tuple_list[k * coef] or point_tuple_list[index * coef] is out of range
OrientationIndexError(pts, coef) ==
    \E k \in 0..(Len(pts) - 1) :
        \/ k * coef >= Len(pts)
        \/ NextIndex(Len(pts), k) * coef >= Len(pts)

\* a slip: the points are walked in the order of vert_indices
fix_orientation_walk_indices(point_tuple_list, vert_indices, make_counter_clockwise, coef) ==
    IF \E i \in 1..Len(vert_indices) : vert_indices[i] >= Len(point_tuple_list)
    THEN [kind |-> "IndexError"]
    ELSE LET walked == [i \in 1..Len(vert_indices) |->
                            At(point_tuple_list, vert_indices[i])]
         IN  IF OrientationIndexError(walked, coef)
             THEN [kind |-> "IndexError"]
             ELSE IF sum_orientation(walked, coef) > 0
                  THEN [kind |-> "ok", indices |-> vert_indices, clockwise |-> TRUE]
                  ELSE [kind |-> "ok",
                        indices |-> IF make_counter_clockwise
                                    THEN Reverse(vert_indices) ELSE vert_indices,
                        clockwise |-> FALSE]

\* returns (vert_indices, original_clockwise_orientation); the list that is
\* returned is the caller's list, reversed in place
fix_orientation(point_tuple_list, vert_indices, make_counter_clockwise, coef) ==
    IF OrientationIndexError(point_tuple_list, coef)
    THEN [kind |-> "IndexError"]
    ELSE IF sum_orientation(point_tuple_list, coef) > 0
         THEN [kind |-> "ok", indices |-> vert_indices, clockwise |-> TRUE]
         ELSE [kind |-> "ok",
               indices |-> IF make_counter_clockwise
                           THEN Reverse(vert_indices) ELSE vert_indices,
               clockwise |-> FALSE]

(***************************************************************************)
(* Specification of the orientation normalizer: one call of                 *)
(* fix_orientation, then a second call on what the first returned.          *)
(***************************************************************************)
Init ==
    /\ fn = "none"
    /\ args = <<>>
    /\ ret = None

CallFixOrientation ==
    /\ fn = "none"
    /\ \E pts \in TupleLists, n \in 0..MaxRing, flag \in BOOLEAN, coef \in 1..MaxCoef :
          /\ fn' = "fix_orientation"
          /\ args' = [point_tuple_list |-> pts, vert_indices |-> Range(0, n),
                      make_counter_clockwise |-> flag, coef |-> coef]
          /\ ret' = fix_orientation(pts, Range(0, n), flag, coef)

CallFixOrientationAgain ==
    /\ fn = "fix_orientation"
    /\ ret.kind = "ok"
    /\ fn' = "fix_orientation_again"
    /\ args' = [point_tuple_list |-> args.point_tuple_list,
                vert_indices |-> ret.indices,
                make_counter_clockwise |-> ret.clockwise,
                coef |-> args.coef,
                first |-> ret]
    /\ ret' = fix_orientation(args.point_tuple_list, ret.indices,
                              ret.clockwise, args.coef)

NextOrient == CallFixOrientation \/ CallFixOrientationAgain

SpecOrient == Init /\ [][NextOrient]_vars

\* C6: fix_orientation (stride 1) reports clockwise iff the shoelace sum is
\* > 0 and returns the indices reversed exactly when the flag differs from
\* the winding it found: flag true and not clockwise, or flag false and
\* clockwise.
C6_ReversedIffWindingDiffers ==
    (fn = "fix_orientation" /\ args.coef = 1) =>
        /\ ret.kind = "ok"
        /\ ret.clockwise = (sum_orientation(args.point_tuple_list, 1) > 0)
        /\ ret.indices = IF ret.clockwise # args.make_counter_clockwise
                         THEN Reverse(args.vert_indices)
                         ELSE args.vert_indices

\* what the code does instead: the indices are reversed only when the flag
\* is true and the ring is not clockwise
C6_CodeReversesOnlyWithFlag ==
    (fn = "fix_orientation" /\ args.coef = 1) =>
        /\ ret.kind = "ok"
        /\ ret.clockwise = (sum_orientation(args.point_tuple_list, 1) > 0)
        /\ ret.indices = IF args.make_counter_clockwise /\ ~ret.clockwise
                         THEN Reverse(args.vert_indices)
                         ELSE args.vert_indices

\* the clockwise square with indices [0,1,2,3] and the flag false
C6_FailingInput ==
    /\ fn = "fix_orientation"
    /\ args.point_tuple_list = SquareTuples
    /\ args.vert_indices = <<0, 1, 2, 3>>
    /\ args.make_counter_clockwise = FALSE
    /\ args.coef = 1
    /\ ret = [kind |-> "ok", indices |-> <<0, 1, 2, 3>>, clockwise |-> TRUE]

\* C7: with a stride greater than 1 fix_orientation returns without raising;
\* for the 8-point clockwise square, stride 2 and indices [0,1,2,3] it
\* returns the indices unchanged and wasClockwise = true.
C7_StrideReturns ==
    (fn = "fix_orientation" /\ args.coef > 1) =>
        /\ ret.kind = "ok"
        /\ (/\ args.point_tuple_list = Square8Tuples
            /\ args.coef = 2
            /\ args.vert_indices = <<0, 1, 2, 3>>
            /\ args.make_counter_clockwise)
           => (ret.indices = <<0, 1, 2, 3>> /\ ret.clockwise)

\* the input of tests_fix_orientation_coefficient raises IndexError
C7_FailingInput ==
    /\ fn = "fix_orientation"
    /\ args.point_tuple_list = Square8Tuples
    /\ args.coef = 2
    /\ args.vert_indices = <<0, 1, 2, 3>>
    /\ ret.kind = "IndexError"

\* C8: a second call of fix_orientation on the indices the first call
\* returned, with the flag set to the first call's wasClockwise, returns the
\* same winding classification as the first call.
C8_SameClassification ==
    fn = "fix_orientation_again" =>
        /\ ret.kind = "ok"
        /\ ret.clockwise = args.first.clockwise

\* the first call reversed the indices of a counter-clockwise ring of at
\* least three points, and the second call was made on the reversed indices
C8_Witness ==
    /\ fn = "fix_orientation_again"
    /\ Len(args.point_tuple_list) >= 3
    /\ sum_orientation(args.point_tuple_list, 1) < 0
    /\ Len(args.vert_indices) = Len(args.point_tuple_list)
    /\ args.vert_indices = Reverse(Range(0, Len(args.point_tuple_list)))
    /\ args.first.indices = args.vert_indices
    /\ ret.kind = "ok"

(***************************************************************************)
(* Meshes.  Mesh.create(faces, vertices, colors) keeps the three lists;     *)
(* colours are kept by name.                                                *)
(***************************************************************************)
Mesh(vertices, faces, colors) ==
    [kind |-> "Mesh", vertices |-> vertices, faces |-> faces,
     colors |-> colors, units |-> "m"]

\* a slip: one colour is missing
ColorList_one_short(color, n) == [i \in 1..(n - 1) |-> color]

\* n copies of a colour
ColorList(color, n) == [i \in 1..n |-> color]

\* coords[i + 1], and coords[0] after the last point
NextCoord(coords, i) ==
    IF i # Len(coords) - 1 THEN At(coords, i + 1) ELSE At(coords, 0)

\* a slip: the quad is given the same order for both windings
create_side_face_one_order(coords, i, next_coord_index, height, clockwise_orientation) ==
    <<At(coords, i).x, At(coords, i).y, 0,
      next_coord_index.x, next_coord_index.y, 0,
      next_coord_index.x, next_coord_index.y, height,
      At(coords, i).x, At(coords, i).y, height>>

\* the 12 values of one vertical quad
create_side_face(coords, i, next_coord_index, height, clockwise_orientation) ==
    IF clockwise_orientation = FALSE
    THEN <<At(coords, i).x, At(coords, i).y, 0,
           next_coord_index.x, next_coord_index.y, 0,
           next_coord_index.x, next_coord_index.y, height,
           At(coords, i).x, At(coords, i).y, height>>
    ELSE <<At(coords, i).x, At(coords, i).y, 0,
           At(coords, i).x, At(coords, i).y, height,
           next_coord_index.x, next_coord_index.y, height,
           next_coord_index.x, next_coord_index.y, 0>>

\* for c in coords: vertices.extend([c["x"], c["y"], z])
RingVertices(coords, z) ==
    FlattenW([i \in 1..Len(coords) |-> <<coords[i].x, coords[i].y, z>>], 3)

\* the side loop over one ring: the quads' vertices and faces, the first
\* quad starting at vertex number total_vertices
SideVertices(coords, height, clockwise_orientation) ==
    FlattenW([i \in 1..Len(coords) |->
        create_side_face(coords, i - 1, NextCoord(coords, i - 1), height,
                         clockwise_orientation)], 12)

SideFaces(coords, total_vertices) ==
    FlattenW([i \in 1..Len(coords) |->
        <<4>> \o Range(total_vertices + 4 * (i - 1), total_vertices + 4 * i)], 5)

\* a slip: the guard lets a 2-point ring through
create_flat_mesh_guard2(coords, color, elevation) ==
    IF Len(coords) < 2 THEN None
    ELSE LET fo == fix_orientation(Tuples(coords), Range(0, Len(coords)), TRUE, 1)
         IN  Mesh(RingVertices(coords, elevation),
                  <<Len(coords)>> \o Reverse(fo.indices),
                  ColorList(IF color = "None" THEN "COLOR_GREEN" ELSE color,
                            Len(coords)))

create_flat_mesh(coords, color, elevation) ==
    IF Len(coords) < 3 THEN None
    ELSE LET fo == fix_orientation(Tuples(coords), Range(0, Len(coords)), TRUE, 1)
         IN  Mesh(RingVertices(coords, elevation),
                  <<Len(coords)>> \o Reverse(fo.indices),
                  ColorList(IF color = "None" THEN "COLOR_GREEN" ELSE color,
                            Len(coords)))

\* a slip: the top face is given the order of the bottom face
extrude_building_simple_same_winding(coords, coords_inner, height) ==
    IF Len(coords) < 3 THEN None
    ELSE LET n == Len(coords)
             fo == fix_orientation(Tuples(coords), Range(0, n), TRUE, 1)
             top_vert_indices == [k \in 1..n |-> fo.indices[k] + n]
         IN  Mesh(RingVertices(coords, 0) \o RingVertices(coords, height)
                      \o SideVertices(coords, height, fo.clockwise),
                  <<n>> \o fo.indices \o <<n>> \o top_vert_indices
                      \o SideFaces(coords, 2 * n),
                  ColorList("COLOR_BLD", 2 * n + 4 * n))

\* a slip: the side quads index the bottom and top vertices instead of
\* getting four vertices of their own
extrude_building_simple_shared(coords, coords_inner, height) ==
    IF Len(coords) < 3 THEN None
    ELSE LET n == Len(coords)
             fo == fix_orientation(Tuples(coords), Range(0, n), TRUE, 1)
             top_vert_indices == IF fo.clockwise = TRUE
                                 THEN Reverse(Range(n, 2 * n))
                                 ELSE Range(n, 2 * n)
         IN  Mesh(RingVertices(coords, 0) \o RingVertices(coords, height),
                  <<n>> \o fo.indices \o <<n>> \o top_vert_indices
                      \o FlattenW([i \in 1..n |->
                            <<4, i - 1, NextIndex(n, i - 1),
                              n + NextIndex(n, i - 1), n + i - 1>>], 5),
                  ColorList("COLOR_BLD", 2 * n))

extrude_building_simple(coords, coords_inner, height) ==
    IF Len(coords) < 3 THEN None
    ELSE LET n == Len(coords)
             fo == fix_orientation(Tuples(coords), Range(0, n), TRUE, 1)
             top_vert_indices == IF fo.clockwise = TRUE
                                 THEN Reverse(Range(n, 2 * n))
                                 ELSE Range(n, 2 * n)
         IN  Mesh(RingVertices(coords, 0) \o RingVertices(coords, height)
                      \o SideVertices(coords, height, fo.clockwise),
                  <<n>> \o fo.indices \o <<n>> \o top_vert_indices
                      \o SideFaces(coords, 2 * n),
                  ColorList("COLOR_BLD", 2 * n + 4 * n))

(***************************************************************************)
(* to_triangles.  The polygon is built by the code; what shapely, geovoronoi*)
(* and geopandas do with it is the environment's choice lib:                *)
(*   lib.raises  the attempts at which one of the library calls raises,     *)
(*   lib.extra   the triangles returned beyond one per site of the polygon. *)
(***************************************************************************)
RECURSIVE Pow10(_)
Pow10(n) == IF n <= 0 THEN 1 ELSE 10 * Pow10(n - 1)

\* round(v, digits) of an integer coordinate: the value itself for
\* digits >= 0, the nearest multiple of 10^-digits (ties to even) below 0
round(v, digits) ==
    IF digits >= 0 THEN v
    ELSE LET m == Pow10(0 - digits)
             q == v \div m
             r == v % m
         IN  IF 2 * r < m THEN m * q
             ELSE IF 2 * r > m THEN m * (q + 1)
             ELSE IF q % 2 = 0 THEN m * q ELSE m * (q + 1)

\* the loop over one ring from position i: a point whose rounded value was
\* seen before is left out, the last point is always added and not recorded
RECURSIVE RoundRing(_, _, _, _, _)
RoundRing(ring, digits, i, out, seen) ==
    IF i >= Len(ring) THEN [out |-> out, seen |-> seen]
    ELSE LET v == At(ring, i)
             rounded == <<round(v.x, digits), round(v.y, digits)>>
         IN  IF i = Len(ring) - 1
             THEN [out |-> Append(out, <<v.x, v.y>>), seen |-> seen]
             ELSE IF ~In(rounded, seen)
                  THEN RoundRing(ring, digits, i + 1,
                                 Append(out, <<v.x, v.y>>), Append(seen, rounded))
                  ELSE RoundRing(ring, digits, i + 1, out, seen)

\* the loop over the voids from void k; holes_rounded is shared by all voids
RECURSIVE RoundHoles(_, _, _, _, _)
RoundHoles(coords_inner, digits, k, holes, holes_rounded) ==
    IF k >= Len(coords_inner) THEN holes
    ELSE LET h == RoundRing(At(coords_inner, k), digits, 0, <<>>, holes_rounded)
         IN  RoundHoles(coords_inner, digits, k + 1, Append(holes, h.out), h.seen)

\* shapely_Polygon(vert) when the only hole is empty, else
\* shapely_Polygon(vert, holes)
Polygon(vert, holes) ==
    IF Len(holes) = 1 /\ Len(holes[1]) = 0
    THEN [shell |-> vert, holes |-> <<>>]
    ELSE [shell |-> vert, holes |-> holes]

PolygonOf(coords, coords_inner, digits) ==
    Polygon(RoundRing(coords, digits, 0, <<>>, <<>>).out,
            RoundHoles(coords_inner, digits, 0, <<>>, <<>>))

\* the distinct points of the polygon: each becomes a site of the partition
Sites(polygon) ==
    {polygon.shell[i] : i \in 1..Len(polygon.shell)}
        \cup UNION {{polygon.holes[h][i] : i \in 1..Len(polygon.holes[h])} :
                        h \in 1..Len(polygon.holes)}

\* shapely refuses a ring of 1 or 2 coordinates, and a shell with fewer
\* than 3 distinct points has no area to partition
PolygonRaises(polygon) ==
    \/ Cardinality({polygon.shell[i] : i \in 1..Len(polygon.shell)}) < 3
    \/ \E h \in 1..Len(polygon.holes) : Len(polygon.holes[h]) \in {1, 2}

\* the body of the try block raises at this attempt
AttemptRaises(coords, coords_inner, attempt, lib) ==
    \/ PolygonRaises(PolygonOf(coords, coords_inner, 3 - attempt))
    \/ attempt \in lib.raises

\* tri_geom: the triangles kept from the partition, each the 4 coordinates
\* of a closed ring; at least one per site
TriGeom(polygon, lib) ==
    LET site == polygon.shell \o Flatten(polygon.holes)
        n == Len(site)
    IN  [j \in 1..(Cardinality(Sites(polygon)) + lib.extra) |->
            <<site[((j - 1) % n) + 1], site[(j % n) + 1],
              site[((j + 1) % n) + 1], site[((j - 1) % n) + 1]>>]

\* vertices.index(v)
IndexOf(v, vertices) ==
    CHOOSE i \in 0..(Len(vertices) - 1) :
        /\ At(vertices, i) = v
        /\ \A j \in 0..(i - 1) : At(vertices, j) # v

\* the loop over the coordinates of one triangle from coordinate c: the
\* first three get an index, a new vertex is appended
RECURSIVE TriIndices(_, _, _, _)
TriIndices(v_list, c, vertices, tr_indices) ==
    IF c >= Len(v_list) THEN [vertices |-> vertices, tr_indices |-> tr_indices]
    ELSE IF Len(tr_indices) = 3
         THEN TriIndices(v_list, c + 1, vertices, tr_indices)
         ELSE LET v == At(v_list, c)
              IN  IF ~In(v, vertices)
                  THEN TriIndices(v_list, c + 1, Append(vertices, v),
                                  Append(tr_indices, Len(vertices)))
                  ELSE TriIndices(v_list, c + 1, vertices,
                                  Append(tr_indices, IndexOf(v, vertices)))

\* the loop over tri_geom from triangle t
RECURSIVE ShapeFrom(_, _, _, _)
ShapeFrom(tri_geom, t, vertices, triangles) ==
    IF t >= Len(tri_geom) THEN [vertices |-> vertices, triangles |-> triangles]
    ELSE LET r == TriIndices(At(tri_geom, t), 0, vertices, <<>>)
         IN  ShapeFrom(tri_geom, t + 1, r.vertices, Append(triangles, r.tr_indices))

\* a slip: one retry too many, the last one with digits = -1
RECURSIVE to_triangles_retry4(_, _, _, _)
to_triangles_retry4(coords, coords_inner, attempt, lib) ==
    LET digits == 3 - attempt
    IN  IF ~AttemptRaises(coords, coords_inner, attempt, lib)
        THEN [shape |-> ShapeFrom(TriGeom(PolygonOf(coords, coords_inner, digits), lib),
                                  0, <<>>, <<>>),
              attempt |-> attempt, digits_tried |-> <<digits>>]
        ELSE IF attempt + 1 <= 4
             THEN LET r == to_triangles_retry4(coords, coords_inner, attempt + 1, lib)
                  IN  [r EXCEPT !.digits_tried = <<digits>> \o @]
             ELSE [shape |-> None, attempt |-> None, digits_tried |-> <<digits>>]

\* returns (shape, attempt), or (None, None); digits_tried records the
\* value of digits of every attempt made, in order
RECURSIVE to_triangles(_, _, _, _)
to_triangles(coords, coords_inner, attempt, lib) ==
    LET digits == 3 - attempt
    IN  IF ~AttemptRaises(coords, coords_inner, attempt, lib)
        THEN [shape |-> ShapeFrom(TriGeom(PolygonOf(coords, coords_inner, digits), lib),
                                  0, <<>>, <<>>),
              attempt |-> attempt, digits_tried |-> <<digits>>]
        ELSE IF attempt + 1 <= 3
             THEN LET r == to_triangles(coords, coords_inner, attempt + 1, lib)
                  IN  [r EXCEPT !.digits_tried = <<digits>> \o @]
             ELSE [shape |-> None, attempt |-> None, digits_tried |-> <<digits>>]

(***************************************************************************)
(* extrude_building_complex and extrude_building                            *)
(***************************************************************************)
\* pt_list[a] + pt_list[b] + pt_list[c] for every triangle, at height z
TriangleVertices(shape, z) ==
    FlattenW([j \in 1..Len(shape.triangles) |->
        FlattenW([c \in 1..3 |->
            <<At(shape.vertices, shape.triangles[j][c])[1],
              At(shape.vertices, shape.triangles[j][c])[2], z>>], 3)], 9)

\* [3, total-1, total-2, total-3] after every bottom triangle
BottomFaces(t) ==
    FlattenW([j \in 1..t |-> <<3, 3 * j - 1, 3 * j - 2, 3 * j - 3>>], 4)

\* [3, total-3, total-2, total-1] after every top triangle
TopFaces(t) ==
    FlattenW([j \in 1..t |->
        <<3, 3 * t + 3 * j - 3, 3 * t + 3 * j - 2, 3 * t + 3 * j - 1>>], 4)

\* the loop over the voids from void k: the walls of each void, oriented by
\* the void's own flag
RECURSIVE VoidWalls(_, _, _, _)
VoidWalls(coords_inner, k, height, total_vertices) ==
    IF k >= Len(coords_inner) THEN [vertices |-> <<>>, faces |-> <<>>]
    ELSE LET local_coords_inner == At(coords_inner, k)
             fo == fix_orientation(Tuples(local_coords_inner),
                                   Range(0, Len(local_coords_inner)), TRUE, 1)
             rest == VoidWalls(coords_inner, k + 1, height,
                               total_vertices + 4 * Len(local_coords_inner))
         IN  [vertices |-> SideVertices(local_coords_inner, height, fo.clockwise)
                               \o rest.vertices,
              faces |-> SideFaces(local_coords_inner, total_vertices) \o rest.faces]

\* the mesh built from a triangulation: bottom and top triangles, the walls
\* of the outer ring, the walls of the voids
ComplexMesh(coords, coords_inner, height, shape) ==
    LET t == Len(shape.triangles)
        fo == fix_orientation(Tuples(coords), Range(0, Len(coords)), TRUE, 1)
        voids == VoidWalls(coords_inner, 0, height, 6 * t + 4 * Len(coords))
    IN  Mesh(TriangleVertices(shape, 0) \o TriangleVertices(shape, height)
                 \o SideVertices(coords, height, fo.clockwise) \o voids.vertices,
             BottomFaces(t) \o TopFaces(t) \o SideFaces(coords, 6 * t)
                 \o voids.faces,
             ColorList("COLOR_BLD",
                       6 * t + 4 * Len(coords) + Len(voids.vertices) \div 3))

\* a slip: the failure sentinel is taken for a triangulation without
\* triangles
extrude_building_complex_sentinel(coords, coords_inner, height, lib) ==
    IF Len(coords) < 3 THEN None
    ELSE LET triangulated_geom == to_triangles(coords, coords_inner, 0, lib).shape
         IN  IF triangulated_geom = None
             THEN ComplexMesh(coords, coords_inner, height,
                              [vertices |-> <<>>, triangles |-> <<>>])
             ELSE ComplexMesh(coords, coords_inner, height, triangulated_geom)

\* a slip: the voids get no walls
extrude_building_complex_no_void_walls(coords, coords_inner, height, lib) ==
    IF Len(coords) < 3 THEN None
    ELSE LET triangulated_geom == to_triangles(coords, coords_inner, 0, lib).shape
         IN  IF triangulated_geom = None
             THEN extrude_building_simple(coords, <<>>, height)
             ELSE ComplexMesh(coords, <<>>, height, triangulated_geom)

\* to_triangles catches every exception itself, so the except branch of the
\* caller is never taken; both branches return the simple extrusion
extrude_building_complex(coords, coords_inner, height, lib) ==
    IF Len(coords) < 3 THEN None
    ELSE LET triangulated_geom == to_triangles(coords, coords_inner, 0, lib).shape
         IN  IF triangulated_geom = None
             THEN extrude_building_simple(coords, <<>>, height)
             ELSE ComplexMesh(coords, coords_inner, height, triangulated_geom)

extrude_building(coords, coords_inner, height, lib) ==
    IF Len(coords) < 3 THEN None
    ELSE IF Len(coords_inner) = 0
         THEN extrude_building_simple(coords, coords_inner, height)
         ELSE extrude_building_complex(coords, coords_inner, height, lib)

(***************************************************************************)
(* Specification of the extrusion engine: one call of one of its functions. *)
(***************************************************************************)
\* a void inside the triangle (5,5),(5,-5),(-5,-5)
TriangleVoid == <<Pt(3, 0), Pt(3, -3), Pt(0, -3)>>

\* a way that stays on its first node: 14 times (5,5), then two more corners
RepeatedRing ==
    [i \in 1..16 |-> IF i <= 14 THEN Pt(5, 5)
                     ELSE IF i = 15 THEN Pt(5, -5) ELSE Pt(-5, -5)]

OuterRings == Rings \cup {RepeatedRing}

InnerLists ==
    {<<>>, <<SquareVoid>>, <<TriangleVoid>>, <<SquareVoid, TriangleVoid>>,
     << <<>> >>, << <<Pt(2, 2), Pt(2, -2)>> >>}

Heights == {10, -3}

Libs == [raises : SUBSET (0..3), extra : 0..MaxExtraTriangles]

CallExtrudeBuilding ==
    /\ fn = "none"
    /\ \E coords \in OuterRings, coords_inner \in InnerLists,
          height \in {10}, lib \in Libs :
          /\ fn' = "extrude_building"
          /\ args' = [coords |-> coords, coords_inner |-> coords_inner,
                      height |-> height, lib |-> lib]
          /\ ret' = extrude_building(coords, coords_inner, height, lib)

CallExtrudeBuildingSimple ==
    /\ fn = "none"
    /\ \E coords \in OuterRings, coords_inner \in InnerLists, height \in Heights :
          /\ fn' = "extrude_building_simple"
          /\ args' = [coords |-> coords, coords_inner |-> coords_inner,
                      height |-> height]
          /\ ret' = extrude_building_simple(coords, coords_inner, height)

CallExtrudeBuildingComplex ==
    /\ fn = "none"
    /\ \E coords \in OuterRings, coords_inner \in InnerLists,
          height \in {10}, lib \in Libs :
          /\ fn' = "extrude_building_complex"
          /\ args' = [coords |-> coords, coords_inner |-> coords_inner,
                      height |-> height, lib |-> lib]
          /\ ret' = extrude_building_complex(coords, coords_inner, height, lib)

CallCreateFlatMesh ==
    /\ fn = "none"
    /\ \E coords \in OuterRings, color \in {"None", "COLOR_ROAD"}, elevation \in {1, 2} :
          /\ fn' = "create_flat_mesh"
          /\ args' = [coords |-> coords, color |-> color, elevation |-> elevation]
          /\ ret' = create_flat_mesh(coords, color, elevation)

CallToTriangles ==
    /\ fn = "none"
    /\ \E coords \in OuterRings, coords_inner \in InnerLists, lib \in Libs :
          /\ fn' = "to_triangles"
          /\ args' = [coords |-> coords, coords_inner |-> coords_inner,
                      attempt |-> 0, lib |-> lib]
          /\ ret' = to_triangles(coords, coords_inner, 0, lib)

NextExtrude ==
    \/ CallExtrudeBuilding
    \/ CallExtrudeBuildingSimple
    \/ CallExtrudeBuildingComplex
    \/ CallCreateFlatMesh
    \/ CallToTriangles

SpecExtrude == Init /\ [][NextExtrude]_vars

\* the vertex counts of the faces of a face list [k, i1..ik, k', ...];
\* -1 marks a run that is cut short
RECURSIVE FaceSizes(_)
FaceSizes(faces) ==
    IF faces = <<>> THEN <<>>
    ELSE IF faces[1] < 0 \/ Len(faces) < 1 + faces[1] THEN <<-1>>
         ELSE <<faces[1]>> \o FaceSizes(SubSeq(faces, faces[1] + 2, Len(faces)))

\* the faces of a simple extrusion: two n-gons and n quads
SimpleFaceSizes(n) == <<n, n>> \o [i \in 1..n |-> 4]

\* every attempt of to_triangles raises for these arguments
AllAttemptsRaise(a) ==
    \A k \in 0..3 : AttemptRaises(a.coords, a.coords_inner, k, a.lib)

\* C1: the simple extrusion of an outer ring of N >= 3 points without holes
\* (extrude_building_simple, and extrude_building on its simple path) is a
\* mesh of 6N vertices, 18N coordinate values, and N+2 faces: an N-gon, an
\* N-gon and N quads.
C1_SimpleExtrusionCounts ==
    (/\ fn \in {"extrude_building_simple", "extrude_building"}
     /\ Len(args.coords) >= 3
     /\ args.coords_inner = <<>>) =>
        /\ ret.kind = "Mesh"
        /\ Len(ret.vertices) = 18 * Len(args.coords)
        /\ Len(FaceSizes(ret.faces)) = Len(args.coords) + 2
        /\ FaceSizes(ret.faces) = SimpleFaceSizes(Len(args.coords))

\* the square of the unit test, height 10: 72 values, 24 vertices, 6 faces
C1_Witness ==
    /\ fn = "extrude_building"
    /\ args.coords = Square
    /\ args.coords_inner = <<>>
    /\ args.height = 10
    /\ ret.kind = "Mesh"
    /\ Len(ret.vertices) = 72
    /\ Len(ret.colors) = 24
    /\ FaceSizes(ret.faces) = <<4, 4, 4, 4, 4, 4>>

\* C2: extrude_building, extrude_building_simple, extrude_building_complex
\* and create_flat_mesh return None for every outer ring of fewer than 3
\* points, whatever the other arguments.
C2_ShortRingGivesNone ==
    (/\ fn \in {"extrude_building", "extrude_building_simple",
                "extrude_building_complex", "create_flat_mesh"}
     /\ Len(args.coords) < 3) =>
        ret = None

\* a 2-point ring handed to create_flat_mesh
C2_Witness ==
    /\ fn = "create_flat_mesh"
    /\ Len(args.coords) = 2
    /\ args.coords[1] # args.coords[2]
    /\ ret = None

\* C3: when holes are present and every attempt of the triangulation fails,
\* the extrusion is exactly the simple extrusion of the outer ring alone:
\* for an outer ring of N >= 3 points a mesh of 6N vertices whose faces are
\* two N-gons and N quads (no triangle, no hole wall), never None.
C3_FailureFallsBackToSimple ==
    (/\ fn \in {"extrude_building_complex", "extrude_building"}
     /\ Len(args.coords_inner) > 0
     /\ AllAttemptsRaise(args)) =>
        /\ ret = extrude_building_simple(args.coords, <<>>, args.height)
        /\ Len(args.coords) >= 3 =>
              /\ ret.kind = "Mesh"
              /\ Len(ret.vertices) = 18 * Len(args.coords)
              /\ FaceSizes(ret.faces) = SimpleFaceSizes(Len(args.coords))

\* the square with its void, the library raising at all four attempts
C3_Witness ==
    /\ fn = "extrude_building_complex"
    /\ args.coords = Square
    /\ args.coords_inner = <<SquareVoid>>
    /\ args.lib.raises = 0..3
    /\ ret.kind = "Mesh"
    /\ Len(ret.vertices) = 72

\* C4: to_triangles started with attempt 0 makes at most 4 attempts, attempt
\* k with digits = 3 - k (3, 2, 1, 0); it returns (shape, k) for the first
\* attempt k that does not raise, and (None, None) iff all four raise.
C4_BoundedRetries ==
    fn = "to_triangles" =>
        LET passing == {k \in 0..3 : ~AttemptRaises(args.coords, args.coords_inner,
                                                     k, args.lib)}
            made == Len(ret.digits_tried)
        IN  /\ made <= 4
            /\ ret.digits_tried = [i \in 1..made |-> 4 - i]
            /\ \A i \in 1..made : ret.digits_tried[i] >= 0
            /\ IF passing = {}
               THEN ret.shape = None /\ ret.attempt = None /\ made = 4
               ELSE /\ ret.shape # None
                    /\ ret.attempt \in passing
                    /\ \A k \in passing : ret.attempt <= k
                    /\ made = ret.attempt + 1

\* three attempts raised and the fourth, with digits = 0, returned a shape
C4_Witness ==
    /\ fn = "to_triangles"
    /\ args.coords = Square
    /\ args.coords_inner = <<SquareVoid>>
    /\ args.lib.raises = {0, 1, 2}
    /\ ret.shape # None
    /\ ret.attempt = 3
    /\ ret.digits_tried = <<3, 2, 1, 0>>

\* the sentinel after four raising attempts
C4_WitnessSentinel ==
    /\ fn = "to_triangles"
    /\ args.coords = Square
    /\ args.coords_inner = <<SquareVoid>>
    /\ ret.shape = None
    /\ ret.digits_tried = <<3, 2, 1, 0>>

\* the points of all voids
RECURSIVE TotalLen(_)
TotalLen(rings) == IF rings = <<>> THEN 0 ELSE Len(Head(rings)) + TotalLen(Tail(rings))

\* the number of triangles to_triangles returns for these arguments
TriangleCount(a) == Len(to_triangles(a.coords, a.coords_inner, 0, a.lib).shape.triangles)

RECURSIVE split_list_by_repeated_elements(_, _)
RECURSIVE SplitLoop(_, _, _, _)

\* the for loop from position i.  iterated is the list the loop was started
\* on: enumerate keeps it although the name original_list is bound to a
\* slice inside the loop; lsts[-1] of an empty lsts raises IndexError
SplitLoop(iterated, i, original_list, lsts) ==
    IF i >= Len(iterated) THEN [kind |-> "ok", lsts |-> lsts]
    ELSE IF lsts = <<>> THEN [kind |-> "IndexError"]
    ELSE LET list_item == At(iterated, i)
             last == lsts[Len(lsts)]
         IN  IF ~In(list_item, last)
             THEN SplitLoop(iterated, i + 1, original_list,
                            [lsts EXCEPT ![Len(lsts)] = Append(@, list_item)])
             ELSE LET popped == IF Len(last) <= 1
                                THEN SubSeq(lsts, 1, Len(lsts) - 1)
                                ELSE lsts
                      sliced == SliceFrom(original_list, i)
                      r == split_list_by_repeated_elements(sliced, popped)
                  IN  IF r.kind # "ok" THEN r
                      ELSE SplitLoop(iterated, i + 1, sliced, r.lsts)

split_list_by_repeated_elements(original_list, lsts) ==
    IF Len(original_list) > 1
    THEN SplitLoop(original_list, 0, original_list, Append(lsts, <<>>))
    ELSE [kind |-> "ok", lsts |-> lsts]

\* from utils.utils_other import fill_list
fill_list(values, lsts) == split_list_by_repeated_elements(values, lsts)

\* set(ids)
SetOf(ids) == {ids[i] : i \in 1..Len(ids)}

\* the area tag is looked up but never stops the splitting
AreaYes_ignored(tag) == "area" \in DOMAIN tag /\ tag.area = "never"

\* tags[i]["area"] == "yes"; a missing key raises inside the try and is
\* passed over
AreaYes(tag) == "area" \in DOMAIN tag /\ tag.area = "yes"

\* the loop over the ways from way i
RECURSIVE SplitWaysFrom(_, _, _, _, _)
SplitWaysFrom(ways, tags, i, splitWays, splitTags) ==
    IF i >= Len(ways)
    THEN [kind |-> "ok", splitWays |-> splitWays, splitTags |-> splitTags]
    ELSE LET w == At(ways, i)
             ids == w.nodes
         IN  IF AreaYes(At(tags, i))
             THEN SplitWaysFrom(ways, tags, i + 1, Append(splitWays, w),
                                Append(splitTags, At(tags, i)))
             ELSE IF Len(ids) = 0 \/ Cardinality(SetOf(ids)) < Len(ids)
                  THEN LET wList == fill_list(ids, <<>>)
                       IN  IF wList.kind # "ok" THEN wList
                           ELSE SplitWaysFrom(ways, tags, i + 1,
                                    splitWays \o [k \in 1..Len(wList.lsts) |->
                                                    [w EXCEPT !.nodes = wList.lsts[k]]],
                                    splitTags \o [k \in 1..Len(wList.lsts) |->
                                                    At(tags, i)])
                  ELSE SplitWaysFrom(ways, tags, i + 1, Append(splitWays, w),
                                     Append(splitTags, At(tags, i)))

split_ways_by_intersection(ways, tags) == SplitWaysFrom(ways, tags, 0, <<>>, <<>>)

\* get_roads: closed is set when the last id of the way equals its first
closed(ids) == Len(ids) > 0 /\ ids[Len(ids)] = ids[1]

(***************************************************************************)
(* Specification of the way splitter: one call of                           *)
(* split_ways_by_intersection or of split_list_by_repeated_elements.        *)
(***************************************************************************)
NodeIds == 0..(MaxNode - 1)

NodeLists == SeqsOf(NodeIds, 0, MaxIds)

\* the ways of test_split_ways_by_intersection
TestWays == <<[id |-> 7, nodes |-> <<0, 1, 2, 3, 1, 4>>],
              [id |-> 8, nodes |-> <<33, 11, 44>>]>>

TagChoices == {[highway |-> "service"],
               [highway |-> "service", area |-> "yes"],
               [highway |-> "service", area |-> "no"]}

CallSplitWays ==
    /\ fn = "none"
    /\ \/ \E nodes \in NodeLists, tag \in TagChoices :
             /\ args' = [ways |-> <<[id |-> 7, nodes |-> nodes]>>, tags |-> <<tag>>]
             /\ ret' = split_ways_by_intersection(<<[id |-> 7, nodes |-> nodes]>>,
                                                  <<tag>>)
       \/ \E tag1 \in TagChoices, tag2 \in TagChoices :
             /\ args' = [ways |-> TestWays, tags |-> <<tag1, tag2>>]
             /\ ret' = split_ways_by_intersection(TestWays, <<tag1, tag2>>)
    /\ fn' = "split_ways_by_intersection"

\* the lists of test_split_list_by_repeated_elements
TestLists == <<<<1, 2, 3>>, <<11, 12>>>>

CallSplitList ==
    /\ fn = "none"
    /\ \E values \in NodeLists \cup {<<4, 5, 6, 6, 7, 8>>},
          lsts \in {<<>>, TestLists} :
          /\ fn' = "split_list_by_repeated_elements"
          /\ args' = [original_list |-> values, lsts |-> lsts]
          /\ ret' = split_list_by_repeated_elements(values, lsts)

NextSplit == CallSplitWays \/ CallSplitList

SpecSplit == Init /\ [][NextSplit]_vars

\* ring is a contiguous run of ids, in the original order
IsRunOf(ring, ids) ==
    \E start \in 0..(Len(ids) - Len(ring)) :
        \A k \in 1..Len(ring) : ring[k] = ids[start + k]

\* no id occurs twice in ring
NoRepeat(ring) == Cardinality(SetOf(ring)) = Len(ring)

\* C9: for a way without area=yes whose node ids contain repetitions,
\* split_ways_by_intersection returns without error, every output ring is a
\* contiguous run of the input in its original order, no ring contains an
\* id twice, and every ring after the first starts with an id of the ring
\* before it; a way without repetition passes through unchanged; the ways
\* [0,1,2,3,1,4] and [33,11,44] give 3 rings, the first being [0,1,2,3].
C9_SplitAtEachRepetition ==
    fn = "split_ways_by_intersection" =>
        /\ (Len(args.ways) = 1 /\ ~AreaYes(args.tags[1])) =>
              LET ids == args.ways[1].nodes
              IN  /\ ret.kind = "ok"
                  /\ (Len(ids) > 0 /\ NoRepeat(ids)) => ret.splitWays = args.ways
                  /\ \A k \in 1..Len(ret.splitWays) :
                        /\ IsRunOf(ret.splitWays[k].nodes, ids)
                        /\ NoRepeat(ret.splitWays[k].nodes)
                        /\ k > 1 => In(ret.splitWays[k].nodes[1],
                                       ret.splitWays[k - 1].nodes)
        /\ (args.ways = TestWays /\ \A i \in 1..2 : ~AreaYes(args.tags[i])) =>
              /\ ret.kind = "ok"
              /\ Len(ret.splitWays) = 3
              /\ ret.splitWays[1].nodes = <<0, 1, 2, 3>>

\* a way that keeps returning to its first node raises IndexError
C9_FailingInputRaises ==
    /\ fn = "split_ways_by_intersection"
    /\ args.ways[1].nodes = <<0, 0, 0>>
    /\ ~AreaYes(args.tags[1])
    /\ ret.kind = "IndexError"

\* a ring that is not a run of the input: [0,0,1,0,2] gives [0,1], [0,2,1]
C9_FailingInputOrder ==
    /\ fn = "split_ways_by_intersection"
    /\ args.ways[1].nodes = <<0, 0, 1, 0, 2>>
    /\ ~AreaYes(args.tags[1])
    /\ ret.kind = "ok"
    /\ Len(ret.splitWays) = 2
    /\ ret.splitWays[1].nodes = <<0, 1>>
    /\ ret.splitWays[2].nodes = <<0, 2, 1>>

\* the test's input gives what the test expects
C9_TestCase ==
    /\ fn = "split_ways_by_intersection"
    /\ args.ways = TestWays
    /\ \A i \in 1..2 : ~AreaYes(args.tags[i])
    /\ ret.kind = "ok"
    /\ Len(ret.splitWays) = 3
    /\ ret.splitWays[1] = [id |-> 7, nodes |-> <<0, 1, 2, 3>>]
    /\ ret.splitWays[2] = [id |-> 7, nodes |-> <<1, 4>>]
    /\ ret.splitWays[3] = TestWays[2]

\* ids is a closed ring: its first id comes again as the last one and
\* nothing else is repeated
ClosedRing(ids) ==
    /\ Len(ids) >= 4
    /\ ids[Len(ids)] = ids[1]
    /\ NoRepeat(SubSeq(ids, 1, Len(ids) - 1))

\* C10: for a closed way whose only repeated id is its first id coming again
\* as the last one, split_ways_by_intersection returns exactly one way with
\* a node sequence identical to the input, closing id included, which
\* get_roads recognises as closed.
C10_ClosedRingKept ==
    (/\ fn = "split_ways_by_intersection"
     /\ Len(args.ways) = 1
     /\ ~AreaYes(args.tags[1])
     /\ ClosedRing(args.ways[1].nodes)) =>
        /\ ret.kind = "ok"
        /\ Len(ret.splitWays) = 1
        /\ ret.splitWays[1].nodes = args.ways[1].nodes
        /\ closed(ret.splitWays[1].nodes)

\* the closed ring [0,1,2,0] comes back as the open way [0,1,2]
C10_FailingInput ==
    /\ fn = "split_ways_by_intersection"
    /\ args.ways[1].nodes = <<0, 1, 2, 0>>
    /\ ~AreaYes(args.tags[1])
    /\ ret.kind = "ok"
    /\ Len(ret.splitWays) = 1
    /\ ret.splitWays[1].nodes = <<0, 1, 2>>
    /\ ~closed(ret.splitWays[1].nodes)

\* the output positions that hold a piece of way i (pieces keep the way's id)
EntriesOf(i) ==
    {k \in 1..Len(ret.splitWays) : ret.splitWays[k].id = args.ways[i].id}

\* C11: a way whose tag entry has area == "yes" is never split:
\* split_ways_by_intersection emits exactly one output entry for it, the way
\* itself with its node sequence unchanged and its own tag, also when the
\* sequence contains repeated ids or is empty.
C11_AreaYesNotSplit ==
    fn = "split_ways_by_intersection" =>
        \A i \in 1..Len(args.ways) :
            ("area" \in DOMAIN args.tags[i] /\ args.tags[i].area = "yes") =>
                /\ ret.kind = "ok"
                /\ Cardinality(EntriesOf(i)) = 1
                /\ \A k \in EntriesOf(i) :
                      /\ ret.splitWays[k] = args.ways[i]
                      /\ ret.splitTags[k] = args.tags[i]

\* an area=yes way that keeps returning to node 0 comes back whole
C11_Witness ==
    /\ fn = "split_ways_by_intersection"
    /\ args.ways[1].nodes = <<0, 0, 0>>
    /\ args.tags[1] = [highway |-> "service", area |-> "yes"]
    /\ ret.kind = "ok"
    /\ ret.splitWays = args.ways
    /\ ret.splitTags = args.tags

\* an empty area=yes way comes back as one entry
C11_WitnessEmpty ==
    /\ fn = "split_ways_by_intersection"
    /\ args.ways[1].nodes = <<>>
    /\ args.tags[1] = [highway |-> "service", area |-> "yes"]
    /\ ret.kind = "ok"
    /\ ret.splitWays = args.ways

\* C12: split_list_by_repeated_elements(values, lsts) never alters the lists
\* already present in lsts: they remain, unchanged and in the same order, a
\* prefix of the result; with values of length 0 the result equals lsts, and
\* [4,5,6,6,7,8] with two existing lists gives 4 lists including [4,5,6] and
\* [6,7,8].
C12_ExistingListsKept ==
    fn = "split_list_by_repeated_elements" =>
        /\ ret.kind = "ok"
        /\ Len(ret.lsts) >= Len(args.lsts)
        /\ SubSeq(ret.lsts, 1, Len(args.lsts)) = args.lsts
        /\ Len(args.original_list) = 0 => ret.lsts = args.lsts
        /\ (args.original_list = <<4, 5, 6, 6, 7, 8>> /\ args.lsts = TestLists) =>
              ret.lsts = TestLists \o <<<<4, 5, 6>>, <<6, 7, 8>>>>

\* [0,0,0] with the existing lists [1,2,3], [11,12] appends 0 to [11,12]
C12_FailingInput ==
    /\ fn = "split_list_by_repeated_elements"
    /\ args.original_list = <<0, 0, 0>>
    /\ args.lsts = TestLists
    /\ ret.kind = "ok"
    /\ ret.lsts = <<<<1, 2, 3>>, <<11, 12, 0>>>>

\* the test's input gives what the test expects
C12_TestCase ==
    /\ fn = "split_list_by_repeated_elements"
    /\ args.original_list = <<4, 5, 6, 6, 7, 8>>
    /\ args.lsts = TestLists
    /\ ret.kind = "ok"
    /\ ret.lsts = <<<<1, 2, 3>>, <<11, 12>>, <<4, 5, 6>>, <<6, 7, 8>>>>

(***************************************************************************)
(* Relation stitching of get_buildings, get_roads and get_nature: the       *)
(* members of each relation are looked up by ref in the pool ways_part of   *)
(* untagged ways and their nodes are joined into one node list.             *)
(* consumed is the record of the matches made: the relation, the ref, and   *)
(* the pool as the match left it.                                           *)
(***************************************************************************)
MaxFragments == 2

MaxMembers == 2

MaxRelations == 2

\* the first position k of ways_part with ways_part[k]["id"] == ref, 0 if none
FindPart(ways_part, ref) ==
    IF \E k \in 1..Len(ways_part) : ways_part[k].id = ref
    THEN CHOOSE k \in 1..Len(ways_part) :
            /\ ways_part[k].id = ref
            /\ \A j \in 1..(k - 1) : ways_part[j].id # ref
    ELSE 0

\* ways_part.pop(k)
PopAt(ways_part, k) ==
    SubSeq(ways_part, 1, k - 1) \o SubSeq(ways_part, k + 1, Len(ways_part))

\* item = ways_part.pop(k); ways_part.append(item)
PopAndAppend(ways_part, k) == Append(PopAt(ways_part, k), ways_part[k])

\* [n for j, n in enumerate(node_list)
\*    if n not in full_node_list or j == len(node_list) - 1]
RECURSIVE NewNodesFrom(_, _, _)
NewNodesFrom(node_list, full_node_list, j) ==
    IF j >= Len(node_list) THEN <<>>
    ELSE LET n == At(node_list, j)
             rest == NewNodesFrom(node_list, full_node_list, j + 1)
         IN  IF ~In(n, full_node_list) \/ j = Len(node_list) - 1
             THEN <<n>> \o rest
             ELSE rest

\* a slip: the fragment is taken as it comes
JoinedNodes_never_reversed(full_node_list, nodes) ==
    NewNodesFrom(nodes, full_node_list, 0)

\* the nodes a matched fragment adds to full_node_list: the fragment is
\* reversed when it does not start where the list ends
JoinedNodes(full_node_list, nodes) ==
    LET node_list == IF Len(full_node_list) > 0
                        /\ full_node_list[Len(full_node_list)] # nodes[1]
                     THEN Reverse(nodes)
                     ELSE nodes
    IN  NewNodesFrom(node_list, full_node_list, 0)

\* one entry of consumed
Match(n, ref, k, ways_part) ==
    [rel |-> n, ref |-> ref, at |-> k, pool_after |-> ways_part]

\* get_buildings, get_nature: the loop over the outer members of relation n
RECURSIVE JoinOuter(_, _, _, _, _, _)
JoinOuter(n, members, m, full_node_list, ways_part, consumed) ==
    IF m >= Len(members)
    THEN [nodes |-> full_node_list, ways_part |-> ways_part, consumed |-> consumed]
    ELSE LET ref == At(members, m)
             k == FindPart(ways_part, ref)
         IN  IF k = 0
             THEN JoinOuter(n, members, m + 1, full_node_list, ways_part, consumed)
             ELSE LET pool == PopAndAppend(ways_part, k)
                  IN  JoinOuter(n, members, m + 1,
                                full_node_list
                                  \o JoinedNodes(full_node_list, ways_part[k].nodes),
                                pool,
                                Append(consumed, Match(n, ref, k, pool)))

\* get_buildings: the loop over the inner members of relation n; every
\* member starts a local_node_list of its own
RECURSIVE JoinInner(_, _, _, _, _, _)
JoinInner(n, members, m, full_node_inner_list, ways_part, consumed) ==
    IF m >= Len(members)
    THEN [nodes |-> full_node_inner_list, ways_part |-> ways_part,
          consumed |-> consumed]
    ELSE LET ref == At(members, m)
             k == FindPart(ways_part, ref)
         IN  IF k = 0
             THEN JoinInner(n, members, m + 1, Append(full_node_inner_list, <<>>),
                            ways_part, consumed)
             ELSE LET pool == PopAndAppend(ways_part, k)
                  IN  JoinInner(n, members, m + 1,
                                Append(full_node_inner_list,
                                       JoinedNodes(<<>>, ways_part[k].nodes)),
                                pool,
                                Append(consumed, Match(n, ref, k, pool)))

\* get_buildings: turn relations into ways, from relation n
RECURSIVE StitchBuildings(_, _, _, _, _, _)
StitchBuildings(rel_outer_ways, rel_inner_ways, n, ways, ways_part, consumed) ==
    IF n >= Len(rel_outer_ways)
    THEN [kind |-> "ok", ways |-> ways, ways_part |-> ways_part,
          consumed |-> consumed]
    ELSE LET o == JoinOuter(n, At(rel_outer_ways, n), 0, <<>>, ways_part, consumed)
             i == JoinInner(n, At(rel_inner_ways, n), 0, <<>>, o.ways_part,
                            o.consumed)
         IN  StitchBuildings(rel_outer_ways, rel_inner_ways, n + 1,
                             Append(ways, [nodes |-> o.nodes,
                                           inner_nodes |-> i.nodes]),
                             i.ways_part, i.consumed)

\* get_nature: turn relations into ways, from relation n
RECURSIVE StitchNature(_, _, _, _, _)
StitchNature(rel_outer_ways, n, ways, ways_part, consumed) ==
    IF n >= Len(rel_outer_ways)
    THEN [kind |-> "ok", ways |-> ways, ways_part |-> ways_part,
          consumed |-> consumed]
    ELSE LET o == JoinOuter(n, At(rel_outer_ways, n), 0, <<>>, ways_part, consumed)
         IN  StitchNature(rel_outer_ways, n + 1,
                          Append(ways, [nodes |-> o.nodes]),
                          o.ways_part, o.consumed)

\* get_roads: the loop over the members of relation n; every member gives a
\* way of its own and the matched fragment is popped from the pool
RECURSIVE JoinRoadMembers(_, _, _, _, _, _)
JoinRoadMembers(n, members, m, ways, ways_part, consumed) ==
    IF m >= Len(members)
    THEN [ways |-> ways, ways_part |-> ways_part, consumed |-> consumed]
    ELSE LET ref == At(members, m)
             k == FindPart(ways_part, ref)
         IN  IF k = 0
             THEN JoinRoadMembers(n, members, m + 1,
                                  Append(ways, [nodes |-> <<>>]),
                                  ways_part, consumed)
             ELSE LET pool == PopAt(ways_part, k)
                  IN  JoinRoadMembers(n, members, m + 1,
                                      Append(ways, [nodes |-> ways_part[k].nodes]),
                                      pool,
                                      Append(consumed, Match(n, ref, k, pool)))

\* get_roads: turn relations into ways, from relation n
RECURSIVE StitchRoads(_, _, _, _, _)
StitchRoads(rel_outer_ways, n, ways, ways_part, consumed) ==
    IF n >= Len(rel_outer_ways)
    THEN [kind |-> "ok", ways |-> ways, ways_part |-> ways_part,
          consumed |-> consumed]
    ELSE LET r == JoinRoadMembers(n, At(rel_outer_ways, n), 0, ways, ways_part,
                                  consumed)
         IN  StitchRoads(rel_outer_ways, n + 1, r.ways, r.ways_part, r.consumed)

(***************************************************************************)
(* Specification of the relation stitching: one run of the stitching loop   *)
(* of one pipeline over a pool of untagged ways and a list of relations.    *)
(***************************************************************************)
\* node lists of the untagged ways
FragmentNodes == {<<0, 1>>, <<1, 2>>, <<2, 0>>}

\* the pools: ways with the distinct OSM ids 1..k
Pools ==
    UNION {{[k \in 1..len |-> [id |-> k, nodes |-> f[k]]] :
              f \in [1..len -> FragmentNodes]} : len \in 0..MaxFragments}

\* refs of relation members; the last one is the id of no pooled way
Refs == 1..(MaxFragments + 1)

MemberLists == SeqsOf(Refs, 0, MaxMembers)

\* inner members of a building relation
InnerMemberLists == {<<>>, <<1>>}

CallStitchBuildings ==
    /\ fn = "none"
    /\ \E ways_part \in Pools,
          rels \in SeqsOf(MemberLists \X InnerMemberLists, 0, MaxRelations) :
          LET rel_outer_ways == [n \in 1..Len(rels) |-> rels[n][1]]
              rel_inner_ways == [n \in 1..Len(rels) |-> rels[n][2]]
          IN  /\ fn' = "get_buildings"
              /\ args' = [ways_part |-> ways_part,
                          rel_outer_ways |-> rel_outer_ways,
                          rel_inner_ways |-> rel_inner_ways]
              /\ ret' = StitchBuildings(rel_outer_ways, rel_inner_ways, 0, <<>>,
                                        ways_part, <<>>)

CallStitchRoads ==
    /\ fn = "none"
    /\ \E ways_part \in Pools,
          rel_outer_ways \in SeqsOf(MemberLists, 0, MaxRelations) :
          /\ fn' = "get_roads"
          /\ args' = [ways_part |-> ways_part, rel_outer_ways |-> rel_outer_ways]
          /\ ret' = StitchRoads(rel_outer_ways, 0, <<>>, ways_part, <<>>)

CallStitchNature ==
    /\ fn = "none"
    /\ \E ways_part \in Pools,
          rel_outer_ways \in SeqsOf(MemberLists, 0, MaxRelations) :
          /\ fn' = "get_nature"
          /\ args' = [ways_part |-> ways_part, rel_outer_ways |-> rel_outer_ways]
          /\ ret' = StitchNature(rel_outer_ways, 0, <<>>, ways_part, <<>>)

NextStitch == CallStitchBuildings \/ CallStitchRoads \/ CallStitchNature

SpecStitch == Init /\ [][NextStitch]_vars

\* way ref is in the pool
InPool(ref, ways_part) == \E k \in 1..Len(ways_part) : ways_part[k].id = ref

\* every match left the pool without the way it used, and no way was
\* matched twice
ConsumedOnce(consumed) ==
    /\ \A e \in 1..Len(consumed) : ~InPool(consumed[e].ref, consumed[e].pool_after)
    /\ \A e1, e2 \in 1..Len(consumed) :
          e1 # e2 => consumed[e1].ref # consumed[e2].ref

\* C13: in the relation stitching of the buildings, roads and vegetation
\* pipelines each pooled way is consumed at most once per run: after its
\* nodes were appended for one relation member it is no longer in the pool
\* and no later member of the same or of another relation matches it.
C13_FragmentConsumedOnce ==
    fn \in {"get_buildings", "get_roads", "get_nature"} => ConsumedOnce(ret.consumed)

\* two building relations with the same outer member both get way 1, which
\* is still in the pool at the end
C13_FailingInput ==
    /\ fn = "get_buildings"
    /\ args.ways_part = <<[id |-> 1, nodes |-> <<0, 1>>]>>
    /\ args.rel_outer_ways = <<<<1>>, <<1>>>>
    /\ args.rel_inner_ways = <<<<>>, <<>>>>
    /\ Len(ret.consumed) = 2
    /\ ret.ways = <<[nodes |-> <<0, 1>>, inner_nodes |-> <<>>],
                    [nodes |-> <<0, 1>>, inner_nodes |-> <<>>]>>
    /\ ret.ways_part = args.ways_part

\* the same in the vegetation pipeline
C13_FailingInputNature ==
    /\ fn = "get_nature"
    /\ args.ways_part = <<[id |-> 1, nodes |-> <<0, 1>>]>>
    /\ args.rel_outer_ways = <<<<1>>, <<1>>>>
    /\ Len(ret.consumed) = 2
    /\ ret.ways_part = args.ways_part

\* the roads pipeline pops the way it used: there the claim holds
C13_RoadsConsumeOnce == fn = "get_roads" => ConsumedOnce(ret.consumed)

\* a road relation naming way 1 twice gets its nodes once
C13_RoadsWitness ==
    /\ fn = "get_roads"
    /\ args.ways_part = <<[id |-> 1, nodes |-> <<0, 1>>]>>
    /\ args.rel_outer_ways = <<<<1, 1>>>>
    /\ ret.ways = <<[nodes |-> <<0, 1>>], [nodes |-> <<>>]>>
    /\ ret.ways_part = <<>>

(***************************************************************************)
(* Tag values and building heights.  A text is a sequence of one-character  *)
(* strings.  utils_osm imports cut_off_non_numeric_string under the name    *)
(* clean_string.                                                            *)
(***************************************************************************)
MaxText == 4

\* symbols = r"/[^\d.-]/g, ''", taken character by character
symbols == <<"/", "[", "^", "\\", "d", ".", "-", "]", "/", "g", ",", " ", "'", "'">>

Digits == {"0", "1", "2", "3", "4", "5", "6", "7", "8", "9"}

\* text.split(symb)[0]: the part of text before the first symb
RECURSIVE SplitFirst(_, _)
SplitFirst(text, symb) ==
    IF text = <<>> \/ Head(text) = symb THEN <<>>
    ELSE <<Head(text)>> \o SplitFirst(Tail(text), symb)

\* for symb in symbols: text_part = text_part.split(symb)[0]
RECURSIVE CutAtSymbols(_, _)
CutAtSymbols(text_part, i) ==
    IF i >= Len(symbols) THEN text_part
    ELSE CutAtSymbols(SplitFirst(text_part, At(symbols, i)), i + 1)

cut_off_non_numeric_string(text) ==
    LET text_part == CutAtSymbols(text, 0)
        IsNumeric(part) == part \in Digits \cup {"."}
    IN  SelectSeq(text_part, IsNumeric)

\* from utils.utils_other import clean_string
clean_string(text) == cut_off_non_numeric_string(text)

DigitValue(c) ==
    CASE c = "0" -> 0 [] c = "1" -> 1 [] c = "2" -> 2 [] c = "3" -> 3
      [] c = "4" -> 4 [] c = "5" -> 5 [] c = "6" -> 6 [] c = "7" -> 7
      [] c = "8" -> 8 [] c = "9" -> 9

\* the value of a text of digits
RECURSIVE DecimalValue(_)
DecimalValue(text) ==
    IF text = <<>> THEN 0
    ELSE 10 * DecimalValue(SubSeq(text, 1, Len(text) - 1))
         + DigitValue(text[Len(text)])

\* float(text) for a text of digits, points and signs: the number num / den
\* of a text of digits with an optional sign and at most one point,
\* ValueError for a text without digits or with anything else
float(text) ==
    LET signed == text # <<>> /\ Head(text) \in {"-", "+"}
        body == IF signed THEN Tail(text) ELSE text
        points == {i \in 1..Len(body) : body[i] = "."}
        digits == {i \in 1..Len(body) : body[i] \in Digits}
        IsDigit(c) == c \in Digits
        magnitude == DecimalValue(SelectSeq(body, IsDigit))
        decimals == IF points = {} THEN 0
                    ELSE Len(body) - (CHOOSE i \in points : TRUE)
    IN  IF digits = {} \/ digits \cup points # 1..Len(body)
           \/ Cardinality(points) > 1
        THEN [kind |-> "ValueError"]
        ELSE [kind |-> "ok",
              num |-> IF signed /\ Head(text) = "-" THEN 0 - magnitude
                      ELSE magnitude,
              den |-> Pow10(decimals)]

\* tags[i][key].split(",")[0].split(";")[0]
FirstValue(text) == SplitFirst(SplitFirst(text, ","), ";")

\* float(clean_string(tags[i][key].split(",")[0].split(";")[0])); a missing
\* key raises KeyError
TagNumber(tag, key) ==
    IF key \notin DOMAIN tag THEN [kind |-> "KeyError"]
    ELSE float(clean_string(FirstValue(tag[key])))

\* get_scale_factor_to_meters(units), in 1/10000: mm, m, ft
ScaleFactors == {10, 10000, 3048}

\* get_buildings: the tag entry kept for a feature with the building tag:
\* the first of height, building:levels, layer that the feature has
BuildingTags(feature_tags) ==
    IF "height" \in DOMAIN feature_tags
    THEN [building |-> feature_tags.building, height |-> feature_tags.height]
    ELSE IF "building:levels" \in DOMAIN feature_tags
    THEN [building |-> feature_tags.building,
          levels |-> feature_tags["building:levels"]]
    ELSE IF "layer" \in DOMAIN feature_tags
    THEN [building |-> feature_tags.building, layer |-> feature_tags.layer]
    ELSE [building |-> feature_tags.building]

\* get_buildings: the tag entry of a relation, copied from outer_ways_tags
RelationTags(outer_ways_tags) ==
    IF "height" \in DOMAIN outer_ways_tags
    THEN [building |-> outer_ways_tags.building, height |-> outer_ways_tags.height]
    ELSE IF "levels" \in DOMAIN outer_ways_tags
    THEN [building |-> outer_ways_tags.building, levels |-> outer_ways_tags.levels]
    ELSE IF "layer" \in DOMAIN outer_ways_tags
    THEN [building |-> outer_ways_tags.building, layer |-> outer_ways_tags.layer]
    ELSE [building |-> outer_ways_tags.building]

\* get_buildings: height = 9, the nested try blocks, height /= scale_factor;
\* the height is the number num / den
BuildingHeight(tag, scale_factor) ==
    LET h == TagNumber(tag, "height")
        lv == TagNumber(tag, "levels")
        ly == TagNumber(tag, "layer")
        height == IF h.kind = "ok" THEN [num |-> h.num, den |-> h.den]
                  ELSE IF lv.kind = "ok" THEN [num |-> lv.num * 3, den |-> lv.den]
                  ELSE IF ly.kind = "ok" /\ ly.num < 0 THEN [num |-> 0 - 9, den |-> 1]
                  ELSE [num |-> 9, den |-> 1]
    IN  [num |-> height.num * 10000, den |-> height.den * scale_factor]

(***************************************************************************)
(* Specification of the tag handling: one call of                           *)
(* cut_off_non_numeric_string, or the tag entry and the height              *)
(* get_buildings derives for one way or relation with a building tag.       *)
(***************************************************************************)
TextChars == {"1", "2", ".", "-", " ", "m"}

\* "12.5 m"
Text12p5m == <<"1", "2", ".", "5", " ", "m">>

\* the text of test_cut_off_non_numeric_string
TestText ==
    <<"1", "2", "3", "4", "/", "[", "^", "\\", "d", ".", "-", "]", "/", "g",
      ",", " ", "'", "'", "x", " ", "x", " ", "1", "2", "3", "4">>

Texts == SeqsOf(TextChars, 0, MaxText) \cup {Text12p5m, TestText}

\* values of the height, building:levels and layer tags
TagTexts ==
    {<<"5">>, <<"t", "a", "l", "l">>, Text12p5m, <<"-", "1">>, <<"0">>,
     <<"2", ";", "3">>}

TagKeys == {"height", "building:levels", "layer"}

\* the tags of a feature: building and those of height, building:levels,
\* layer that the feature has
FeatureTags(has, values) ==
    [k \in {"building"} \cup has |->
        IF k = "building" THEN <<"y", "e", "s">> ELSE values[k]]

CallCutOffNonNumericString ==
    /\ fn = "none"
    /\ \E text \in Texts :
          /\ fn' = "cut_off_non_numeric_string"
          /\ args' = [text |-> text]
          /\ ret' = cut_off_non_numeric_string(text)

CallBuildingHeight ==
    /\ fn = "none"
    /\ \E has \in SUBSET TagKeys, values \in [TagKeys -> TagTexts],
          scale_factor \in ScaleFactors, type \in {"way", "relation"} :
          LET feature_tags == FeatureTags(has, values)
              tag == IF type = "way" THEN BuildingTags(feature_tags)
                     ELSE RelationTags(BuildingTags(feature_tags))
          IN  /\ fn' = "get_buildings.height"
              /\ args' = [type |-> type, feature_tags |-> feature_tags,
                          scale_factor |-> scale_factor]
              /\ ret' = [tag |-> tag, height |-> BuildingHeight(tag, scale_factor)]

NextTags == CallCutOffNonNumericString \/ CallBuildingHeight

SpecTags == Init /\ [][NextTags]_vars

\* text is a non-empty run of digits
AllDigits(text) == text # <<>> /\ \A i \in 1..Len(text) : text[i] \in Digits

\* text holds no digit at all
NoDigit(text) == \A i \in 1..Len(text) : text[i] \notin Digits

\* the feature has tag key and its value is a whole number
TagIsNumber(key) ==
    key \in DOMAIN args.feature_tags /\ AllDigits(args.feature_tags[key])

\* the feature has no tag key, or one that holds no number
TagIsNoNumber(key) ==
    key \notin DOMAIN args.feature_tags \/ NoDigit(args.feature_tags[key])

\* value / scale_factor
Scaled(value) == [num |-> value * 10000, den |-> args.scale_factor]

\* C14: building height follows the priority chain height > levels*3 >
\* layer-sign > default 9 over all tags of the feature: a numeric height tag
\* gives the height; a feature whose height tag is missing or unparseable
\* and whose building:levels tag is the number L gets height 3*L; the
\* default 9 comes when none of the three tags holds a number.
C14_HeightPriorityChain ==
    fn = "get_buildings.height" =>
        /\ TagIsNumber("height") =>
              ret.height = Scaled(DecimalValue(args.feature_tags.height))
        /\ (TagIsNoNumber("height") /\ TagIsNumber("building:levels")) =>
              ret.height =
                  Scaled(3 * DecimalValue(args.feature_tags["building:levels"]))
        /\ (TagIsNoNumber("height") /\ TagIsNoNumber("building:levels")
            /\ TagIsNoNumber("layer")) => ret.height = Scaled(9)

\* height "tall" with building:levels "5" gives the default 9, not 15
C14_FailingInput ==
    /\ fn = "get_buildings.height"
    /\ DOMAIN args.feature_tags = {"building", "height", "building:levels"}
    /\ args.feature_tags.height = <<"t", "a", "l", "l">>
    /\ args.feature_tags["building:levels"] = <<"5">>
    /\ args.scale_factor = 10000
    /\ DOMAIN ret.tag = {"building", "height"}
    /\ ret.height = [num |-> 90000, den |-> 10000]

\* the chain as far as the code has it: the first tag the feature has
\* decides, and 9 stands when that tag is no number
C14_FirstPresentTagDecides ==
    fn = "get_buildings.height" =>
        /\ (TagIsNoNumber("height") /\ "height" \in DOMAIN args.feature_tags) =>
              ret.height = Scaled(9)
        /\ ("height" \notin DOMAIN args.feature_tags
            /\ TagIsNumber("building:levels")) =>
              ret.height =
                  Scaled(3 * DecimalValue(args.feature_tags["building:levels"]))

\* C15: for a building with no height and no levels tag whose layer tag is
\* a negative number the height passed to extrude_building is -9 divided by
\* the scale factor; with a non-negative layer it is +9 divided by the scale
\* factor.
C15_NegativeLayerInverts ==
    (/\ fn = "get_buildings.height"
     /\ DOMAIN args.feature_tags = {"building", "layer"}) =>
        LET layer == args.feature_tags.layer
        IN  /\ (Head(layer) = "-" /\ AllDigits(Tail(layer))
                /\ DecimalValue(Tail(layer)) > 0) => ret.height = Scaled(0 - 9)
            /\ AllDigits(layer) => ret.height = Scaled(9)

\* layer "-1" gives +9
C15_FailingInput ==
    /\ fn = "get_buildings.height"
    /\ DOMAIN args.feature_tags = {"building", "layer"}
    /\ args.feature_tags.layer = <<"-", "1">>
    /\ args.scale_factor = 10000
    /\ ret.height = [num |-> 90000, den |-> 10000]

\* the characters that are part of a number
NumericChars == Digits \cup {".", "-"}

\* text is a numeric literal: digits, optionally a point and a fraction,
\* optionally a leading minus
NumericLiteral(text) ==
    LET body == IF text # <<>> /\ Head(text) = "-" THEN Tail(text) ELSE text
        points == {i \in 1..Len(body) : body[i] = "."}
    IN  /\ body # <<>>
        /\ \A i \in 1..Len(body) : body[i] \in Digits \cup {"."}
        /\ Cardinality(points) <= 1
        /\ \A i \in points : 1 < i /\ i < Len(body)

\* C16: for a text made of a numeric literal followed by non-numeric
\* characters cut_off_non_numeric_string returns the literal unchanged
\* ("12.5 m" gives "12.5"), and the result never holds a cut-off symbol.
C16_OnlyTrailingCut ==
    fn = "cut_off_non_numeric_string" =>
        /\ \A n \in 1..Len(args.text) :
              (/\ NumericLiteral(SubSeq(args.text, 1, n))
               /\ \A i \in (n + 1)..Len(args.text) :
                     args.text[i] \notin NumericChars) =>
                  ret = SubSeq(args.text, 1, n)
        /\ \A i \in 1..Len(ret) : ~In(ret[i], symbols)

\* "12.5 m" gives "12"
C16_FailingInput ==
    /\ fn = "cut_off_non_numeric_string"
    /\ args.text = Text12p5m
    /\ ret = <<"1", "2">>

\* the part of the claim the code keeps: no cut-off symbol is left, and the
\* test's text gives 4 characters
C16_NoSymbolLeft ==
    fn = "cut_off_non_numeric_string" =>
        /\ \A i \in 1..Len(ret) : ret[i] \in Digits
        /\ args.text = TestText => ret = <<"1", "2", "3", "4">>

(***************************************************************************)
(* road_buffer.  Widths are counted in tenths (25 is 2.5), elevations in    *)
(* hundredths.  shapely's buffer and to_geojson are the environment: area   *)
(* is the "coordinates" list of the polygon they give, one closed ring, or  *)
(* no ring at all for an empty polygon; LineString raises for one point.    *)
(***************************************************************************)
MaxPoly == 3

Base(displayValue, width) ==
    [kind |-> "Base", units |-> "m", displayValue |-> displayValue,
     width |-> width, sourceData |-> "(c) OpenStreetMap",
     sourceUrl |-> "https://www.openstreetmap.org/"]

\* for i, c in enumerate(area["coordinates"][0]): all but the last
\* coordinate, with the elevation as z
BufferVertices(ring, elevation) ==
    FlattenW([i \in 1..(Len(ring) - 1) |-> <<ring[i][1], ring[i][2], elevation>>], 3)

\* the record comes with twice the width
road_buffer_full_width(poly, value, elevation, area) ==
    IF value = None THEN None
    ELSE IF area.kind = "raises" THEN [kind |-> "GEOSException"]
    ELSE IF area.coordinates = <<>> THEN [kind |-> "IndexError"]
    ELSE LET ring == area.coordinates[1]
             vetricesTuples == SubSeq(ring, 1, Len(ring) - 1)
             fo == fix_orientation(vetricesTuples, Range(0, Len(vetricesTuples)),
                                   TRUE, 1)
         IN  Base(<<Mesh(BufferVertices(ring, elevation),
                         <<Len(vetricesTuples)>> \o Reverse(fo.indices),
                         ColorList("COLOR_ROAD", Len(vetricesTuples)))>>,
                  4 * value.tenths)

road_buffer(poly, value, elevation, area) ==
    IF value = None THEN None
    ELSE IF area.kind = "raises" THEN [kind |-> "GEOSException"]
    ELSE IF area.coordinates = <<>> THEN [kind |-> "IndexError"]
    ELSE LET ring == area.coordinates[1]
             vetricesTuples == SubSeq(ring, 1, Len(ring) - 1)
             fo == fix_orientation(vetricesTuples, Range(0, Len(vetricesTuples)),
                                   TRUE, 1)
         IN  Base(<<Mesh(BufferVertices(ring, elevation),
                         <<Len(vetricesTuples)>> \o Reverse(fo.indices),
                         ColorList("COLOR_ROAD", Len(vetricesTuples)))>>,
                  2 * value.tenths)

\* the centerline of test_road_buffer
TestPolyline == <<Pt(0, 0), Pt(5, 0), Pt(15, 5)>>

Polylines == SeqsOf(GridPoints, 0, MaxPoly) \cup {TestPolyline}

\* value: None, or a number of tenths
BufferValues == {None} \cup {[kind |-> "float", tenths |-> v] : v \in {0, 20, 25}}

\* closed rings a buffer polygon may have, either way round
BufferRings ==
    {<<<<0, 0>>, <<4, 0>>, <<4, 2>>, <<0, 2>>, <<0, 0>>>>,
     <<<<0, 0>>, <<0, 2>>, <<4, 2>>, <<4, 0>>, <<0, 0>>>>,
     <<<<0, 0>>, <<4, 0>>, <<6, 2>>, <<6, 4>>, <<0, 2>>, <<0, 0>>>>}

\* what the geometry library gives for the line and the distance: a ring
\* around a line of two different points or more and a distance above 0,
\* an exception for a line of one point, else an empty polygon
BufferAreas(poly, value) ==
    IF Len(poly) = 1 THEN {[kind |-> "raises", coordinates |-> <<>>]}
    ELSE IF Cardinality(SetOf(poly)) >= 2 /\ value # None /\ value.tenths > 0
    THEN {[kind |-> "Polygon", coordinates |-> <<ring>>] : ring \in BufferRings}
    ELSE {[kind |-> "Polygon", coordinates |-> <<>>]}

CallRoadBuffer ==
    /\ fn = "none"
    /\ \E poly \in Polylines, value \in BufferValues, elevation \in {2} :
          \E area \in BufferAreas(poly, value) :
              /\ fn' = "road_buffer"
              /\ args' = [poly |-> poly, value |-> value, elevation |-> elevation,
                          area |-> area]
              /\ ret' = road_buffer(poly, value, elevation, area)

NextRoad == CallRoadBuffer

SpecRoad == Init /\ [][NextRoad]_vars

\* C17 as claimed: road_buffer with a non-null value returns one record
\* whose displayValue holds exactly one mesh and whose width is 2*value
\* (5.0 for value 2.5); with value None it returns None.
C17_RibbonForEveryValue ==
    fn = "road_buffer" =>
        IF args.value = None THEN ret = None
        ELSE /\ ret.kind = "Base"
             /\ Len(ret.displayValue) = 1
             /\ ret.displayValue[1].kind = "Mesh"
             /\ ret.width = 2 * args.value.tenths

\* the buffer polygon has no ring
NoBufferRing == args.area.kind = "raises" \/ args.area.coordinates = <<>>

\* C17 as amended: when the buffer of the polyline is a polygon with a ring
\* (a polyline of two different points or more, a value above 0),
\* road_buffer returns one record whose displayValue holds exactly one mesh,
\* a single face over the ring without its closing point, and whose width is
\* 2*value; with value None it returns None; else it returns nothing and
\* raises.
C17_RibbonWhenBufferHasRing ==
    fn = "road_buffer" =>
        IF args.value = None THEN ret = None
        ELSE IF NoBufferRing THEN ret.kind \in {"IndexError", "GEOSException"}
        ELSE /\ ret.kind = "Base"
             /\ Len(ret.displayValue) = 1
             /\ ret.displayValue[1].kind = "Mesh"
             /\ Len(ret.displayValue[1].faces)
                   = Len(args.area.coordinates[1])
             /\ Len(ret.displayValue[1].colors)
                   = Len(args.area.coordinates[1]) - 1
             /\ 3 * Len(ret.displayValue[1].colors)
                   = Len(ret.displayValue[1].vertices)
             /\ ret.width = 2 * args.value.tenths

\* the test's centerline with value 2.5 gives a record of width 5.0
C17_Witness ==
    /\ fn = "road_buffer"
    /\ args.poly = TestPolyline
    /\ args.value = [kind |-> "float", tenths |-> 25]
    /\ ret.kind = "Base"
    /\ Len(ret.displayValue) = 1
    /\ ret.width = 50

\* value None gives None
C17_WitnessNone ==
    /\ fn = "road_buffer"
    /\ args.poly = TestPolyline
    /\ args.value = None
    /\ ret = None

\* value 0: the buffer is empty and area["coordinates"][0] raises
C17_WitnessRaises ==
    /\ fn = "road_buffer"
    /\ args.poly = TestPolyline
    /\ args.value = [kind |-> "float", tenths |-> 0]
    /\ ret.kind = "IndexError"

(***************************************************************************)
(* generate_tree.  Coordinates that come out of sines and cosines are kept  *)
(* as terms; elevations are counted so that z100 is 100 times the z of a    *)
(* vertex.  env holds what the call draws and meets: the three random       *)
(* integers and the stage of the try block, if any, where an exception is   *)
(* raised (a failing Mesh.create, coords without "x").                      *)
(***************************************************************************)
MaxTrees == 2

\* the canopy template of assets.trees: a stand-in of three vertices
VERTICES == <<0, 0, 0, 1, 0, 2, 0, 1, 2>>

FACES == <<3, 0, 1, 2>>

COLORS == <<"COLOR_CANOPY", "COLOR_CANOPY", "COLOR_CANOPY">>

\* steps = 12
steps == 12

\* random.randint(80, 140) / 100 / scale_factor; twice that for a forest
TreeScale(tree, drawn, scale_factor) ==
    [num |-> (IF tree.id = "forest" THEN 2 ELSE 1) * drawn * 100,
     den |-> scale_factor]

\* rotate_pt({"x": x, "y": y}, angle)[axis] + coords[axis]
RotatedPlus(axis, px, py, angle, coords) ==
    [axis |-> axis, x |-> px, y |-> py, angle |-> angle, plus |-> coords[axis]]

\* the vertices of the canopy: the template scaled, turned and moved
CanopyVertices(coords, scale, scale_z, angle_rad) ==
    FlattenW([i \in 1..(Len(VERTICES) \div 3) |->
        <<RotatedPlus("x", [v |-> VERTICES[3 * i - 2], scale |-> scale],
                      [v |-> VERTICES[3 * i - 1], scale |-> scale],
                      angle_rad, coords),
          RotatedPlus("y", [v |-> VERTICES[3 * i - 2], scale |-> scale],
                      [v |-> VERTICES[3 * i - 1], scale |-> scale],
                      angle_rad, coords),
          [v |-> VERTICES[3 * i], scale |-> scale_z]>>], 3)

\* the vertices of a disc: border_pt turned by -s/12 of a turn, steps times
DiscVertices(coords, border_pt, z100) ==
    FlattenW([s \in 1..steps |->
        <<RotatedPlus("x", border_pt.x, border_pt.y, [turn12 |-> 0 - (s - 1)], coords),
          RotatedPlus("y", border_pt.x, border_pt.y, [turn12 |-> 0 - (s - 1)], coords),
          z100>>], 3)

\* a disc mesh: one face of steps vertices
Disc(coords, radius10000, scale_factor, color, z100) ==
    Mesh(DiscVertices(coords, [x |-> [num |-> radius10000, den |-> scale_factor],
                               y |-> 0], z100),
         <<steps>> \o Range(0, steps),
         ColorList(color, steps))

\* the try block of generate_tree; for_all: the discs are built whatever
\* the id of the tree
TreeMeshes(tree, coords, scale_factor, elevation, env, for_all) ==
    LET obj == Mesh(CanopyVertices(coords,
                         TreeScale(tree, env.scale, scale_factor),
                         TreeScale(tree, env.scale_z, scale_factor),
                         [hundredths |-> env.angle]),
                    FACES, COLORS)
        tree_base == Disc(coords, 10000, scale_factor,
                          "COLOR_TREE_BASE_BROWN", 100 * elevation)
        tree_base_top == Disc(coords, 9000, scale_factor,
                              "COLOR_TREE_BASE", 115 * elevation)
    IN  IF env.fails = "canopy" THEN <<None, None, None>>
        ELSE IF tree.id = "forest" /\ ~for_all THEN <<obj, None, None>>
        ELSE IF env.fails = "base" THEN <<obj, None, None>>
        ELSE IF env.fails = "top" THEN <<obj, tree_base, None>>
        ELSE <<obj, tree_base, tree_base_top>>

\* the discs are built for the forest markers too
generate_tree_discs_for_all(tree, coords, scale_factor, elevation, env) ==
    IF scale_factor = 0 THEN [kind |-> "ZeroDivisionError"]
    ELSE TreeMeshes(tree, coords, scale_factor, elevation, env, TRUE)

\* returns [obj, tree_base, tree_base_top]; the draws and the division by
\* scale_factor come before the try block
generate_tree(tree, coords, scale_factor, elevation, env) ==
    IF scale_factor = 0 THEN [kind |-> "ZeroDivisionError"]
    ELSE TreeMeshes(tree, coords, scale_factor, elevation, env, FALSE)

(***************************************************************************)
(* Specification of the vegetation synthesizer: one call of generate_tree,  *)
(* or one run of get_nature over its polygons and trees.                    *)
(***************************************************************************)
\* ids of trees: the id of an OSM node (as a text) or the forest marker
TreeIds == {"234", "forest"}

\* the stage of the try block that raises
FailStages == {"none", "canopy", "base", "top"}

\* randint(80, 140), randint(80, 140), randint(-200, 200) at their ends
TreeEnvs ==
    [fails : FailStages, scale : {80, 140}, scale_z : {80, 140},
     angle : {-200, 200}]

\* elevations: 0.025 / scale_factor for m and mm, in 1/100000
Elevations == {2500, 2500000}

CallGenerateTree ==
    /\ fn = "none"
    /\ \E id \in TreeIds, coords \in {Pt(10, 20), Pt(0, 0)},
          scale_factor \in ScaleFactors, elevation \in Elevations,
          env \in TreeEnvs :
          /\ fn' = "generate_tree"
          /\ args' = [tree |-> [id |-> id], coords |-> coords,
                      scale_factor |-> scale_factor, elevation |-> elevation,
                      env |-> env]
          /\ ret' = generate_tree([id |-> id], coords, scale_factor, elevation, env)

(***************************************************************************)
(* get_nature after the features were fetched: for each keyword in turn the *)
(* polygons and tree nodes found under it join the lists ways and           *)
(* trees_nodes, which are never emptied, and all ways so far are meshed     *)
(* (again); then one record is made for every tree.  A polygon is           *)
(* [keyword, value, trees, coords], its coords those of the nodes found.    *)
(***************************************************************************)
all_keywords == <<"landuse", "natural", "leisure">>

\* Base(units, displayValue, <property>=<value>, sourceData, sourceUrl)
NatureBase(displayValue, property, value) ==
    [kind |-> "Base", displayValue |-> displayValue, property |-> property,
     value |-> value, sourceData |-> "(c) OpenStreetMap",
     sourceUrl |-> "https://www.openstreetmap.org/"]

\* the trees a forest polygon of more than 3 points adds: one marker for
\* each of the 3 points generate_points_inside_polygon gives (here: at the
\* first points of the ring)
ForestTrees(way) ==
    IF way.trees # "" /\ Len(way.coords) > 3
    THEN [k \in 1..3 |-> [id |-> "forest", coords |-> way.coords[k]]]
    ELSE <<>>

\* the loop over ways, from way i: new forest markers, the flat mesh, the
\* record; obj.units = units raises AttributeError when obj is None
RECURSIVE NaturePolygons(_, _, _, _)
NaturePolygons(ways, i, trees_nodes, objectGroup) ==
    IF i >= Len(ways)
    THEN [kind |-> "ok", trees_nodes |-> trees_nodes, objectGroup |-> objectGroup]
    ELSE LET way == At(ways, i)
             obj == create_flat_mesh(way.coords, "None", 1)
         IN  IF obj = None THEN [kind |-> "AttributeError"]
             ELSE NaturePolygons(ways, i + 1, trees_nodes \o ForestTrees(way),
                                 Append(objectGroup,
                                        NatureBase(<<obj>>, "keyword", way.value)))

\* the features found under keyword
UnderKeyword(features, keyword) ==
    LET Found(f) == f.keyword = keyword
    IN  SelectSeq(features, Found)

\* the loop over all_keywords, from keyword number p
RECURSIVE NaturePasses(_, _, _, _, _, _)
NaturePasses(p, polygons, tree_features, ways, trees_nodes, objectGroup) ==
    IF p >= Len(all_keywords)
    THEN [kind |-> "ok", trees_nodes |-> trees_nodes, objectGroup |-> objectGroup]
    ELSE LET keyword == At(all_keywords, p)
             all_ways == ways \o UnderKeyword(polygons, keyword)
             r == NaturePolygons(all_ways, 0,
                                 trees_nodes \o UnderKeyword(tree_features, keyword),
                                 objectGroup)
         IN  IF r.kind # "ok" THEN r
             ELSE NaturePasses(p + 1, polygons, tree_features, all_ways,
                               r.trees_nodes, r.objectGroup)

\* the null entries are kept
NonNull_keeps_all(tree_elements) == tree_elements

\* for item in tree_elements: if item is not None: elements.append(item)
NonNull(tree_elements) ==
    LET IsMesh(item) == item # None
    IN  SelectSeq(tree_elements, IsMesh)

\* elevation = 0.025 / scale_factor, in 1/100000
TreeElevation(scale_factor) == 25000000 \div scale_factor

\* the batch stops at the first tree whose generation raised
NatureTrees_stop_at_failure(trees_nodes, scale_factor, envs, objectGroup) ==
    LET Failed(t) == envs[((t - 1) % Len(envs)) + 1].fails # "none"
        upto == IF \E t \in 1..Len(trees_nodes) : Failed(t)
                THEN (CHOOSE t \in 1..Len(trees_nodes) :
                         Failed(t) /\ \A u \in 1..(t - 1) : ~Failed(u)) - 1
                ELSE Len(trees_nodes)
    IN  objectGroup \o
        [t \in 1..upto |->
            NatureBase(NonNull(generate_tree(trees_nodes[t], trees_nodes[t].coords,
                                             scale_factor,
                                             TreeElevation(scale_factor),
                                             envs[((t - 1) % Len(envs)) + 1])),
                       "natural", "tree")]

\* the loop over trees_nodes: tree number t meets envs[t], the envs taken
\* round and round
NatureTrees(trees_nodes, scale_factor, envs, objectGroup) ==
    objectGroup \o
    [t \in 1..Len(trees_nodes) |->
        NatureBase(NonNull(generate_tree(trees_nodes[t], trees_nodes[t].coords,
                                         scale_factor, TreeElevation(scale_factor),
                                         envs[((t - 1) % Len(envs)) + 1])),
                   "natural", "tree")]

\* get_nature: the records, with the list trees_nodes the tree loop ran over
get_nature(polygons, tree_features, scale_factor, envs) ==
    LET r == NaturePasses(0, polygons, tree_features, <<>>, <<>>, <<>>)
    IN  IF r.kind # "ok" THEN r
        ELSE [kind |-> "ok", trees_nodes |-> r.trees_nodes,
              objectGroup |-> NatureTrees(r.trees_nodes, scale_factor, envs,
                                          r.objectGroup)]

MaxPolygons == 1

\* rings of found nodes: too short for a mesh, a triangle, the test square
PolygonRings == {<<Pt(0, 0), Pt(2, 0)>>, <<Pt(0, 0), Pt(2, 0), Pt(0, 2)>>, Square}

\* the green polygons: trees is "trees" for a forest
PolygonKinds ==
    {[keyword |-> "landuse", value |-> "forest", trees |-> "trees"],
     [keyword |-> "landuse", value |-> "grass", trees |-> ""],
     [keyword |-> "natural", value |-> "scrub", trees |-> ""],
     [keyword |-> "leisure", value |-> "park", trees |-> ""]}

Polygons ==
    {[keyword |-> k.keyword, value |-> k.value, trees |-> k.trees, coords |-> c] :
        k \in PolygonKinds, c \in PolygonRings}

\* nodes tagged natural = tree
TreeFeatures ==
    {[keyword |-> "natural", id |-> "234", coords |-> Pt(10, 20)],
     [keyword |-> "natural", id |-> "235", coords |-> Pt(0, 0)]}

\* what the trees of a batch meet
BatchEnvs ==
    {[fails |-> f, scale |-> 80, scale_z |-> 140, angle |-> -200] :
        f \in FailStages}

CallGetNature ==
    /\ fn = "none"
    /\ \E polygons \in SeqsOf(Polygons, 0, MaxPolygons),
          tree_features \in SeqsOf(TreeFeatures, 0, MaxTrees),
          envs \in SeqsOf(BatchEnvs, MaxTrees, MaxTrees) :
          /\ fn' = "get_nature"
          /\ args' = [polygons |-> polygons, tree_features |-> tree_features,
                      scale_factor |-> 10000, envs |-> envs]
          /\ ret' = get_nature(polygons, tree_features, 10000, envs)

NextNature == CallGenerateTree \/ CallGetNature

SpecNature == Init /\ [][NextNature]_vars

\* an exception is raised in the call: at the canopy, or at a disc of a
\* tree that gets discs
ExceptionOccurs(tree, env) ==
    \/ env.fails = "canopy"
    \/ tree.id # "forest" /\ env.fails \in {"base", "top"}

\* mesh is a disc: 12 vertices at height z100 / 100 under one face
IsDisc(mesh, z100) ==
    /\ mesh.kind = "Mesh"
    /\ Len(mesh.vertices) = 3 * 12
    /\ Len(mesh.colors) = 12
    /\ mesh.faces = <<12, 0, 1, 2, 3, 4, 5, 6, 7, 8, 9, 10, 11>>
    /\ \A k \in 1..12 : mesh.vertices[3 * k] = z100

\* C18: generate_tree always returns a list of exactly three entries
\* [canopy, base disc, cap disc].  When no exception occurs, a tree whose id
\* is not "forest" gets three meshes, the two discs being 12-vertex
\* single-face meshes at elevation and 1.15*elevation; a tree whose id is
\* "forest" gets only the canopy mesh and None for both discs.
C18_TreeHasThreeEntries ==
    fn = "generate_tree" =>
        /\ Len(ret) = 3
        /\ \A k \in 1..3 : ret[k].kind \in {"Mesh", "None"}
        /\ ~ExceptionOccurs(args.tree, args.env) =>
              /\ ret[1].kind = "Mesh"
              /\ ret[1].faces = FACES
              /\ IF args.tree.id # "forest"
                 THEN /\ IsDisc(ret[2], 100 * args.elevation)
                      /\ IsDisc(ret[3], 115 * args.elevation)
                 ELSE ret[2] = None /\ ret[3] = None

\* the tree of test_generate_tree gets three meshes
C18_Witness ==
    /\ fn = "generate_tree"
    /\ args.tree.id = "234"
    /\ args.coords = Pt(10, 20)
    /\ args.env.fails = "none"
    /\ \A k \in 1..3 : ret[k].kind = "Mesh"

\* a forest marker gets the canopy only
C18_WitnessForest ==
    /\ fn = "generate_tree"
    /\ args.tree.id = "forest"
    /\ args.env.fails = "none"
    /\ ret[1].kind = "Mesh"
    /\ ret[2] = None
    /\ ret[3] = None

\* the number of polygon records of a finished run
PolygonRecords == Len(ret.objectGroup) - Len(ret.trees_nodes)

\* what tree number t of the batch met
EnvOf(t) == args.envs[((t - 1) % Len(args.envs)) + 1]

\* no tree of the batch met an exception
NoTreeFailed ==
    \A t \in 1..Len(ret.trees_nodes) : ~ExceptionOccurs(ret.trees_nodes[t], EnvOf(t))

MeshesOfTree(t) ==
    IF EnvOf(t).fails = "canopy" THEN 0
    ELSE IF ret.trees_nodes[t].id = "forest" THEN 1
    ELSE IF EnvOf(t).fails = "base" THEN 1
    ELSE IF EnvOf(t).fails = "top" THEN 2
    ELSE 3

C20_TreeFailureKeepsBatch ==
    /\ (fn = "generate_tree" /\ ExceptionOccurs(args.tree, args.env)) =>
          /\ Len(ret) = 3
          /\ ret[1].kind = (IF args.env.fails = "canopy" THEN "None" ELSE "Mesh")
          /\ ret[2].kind = (IF args.env.fails = "top" THEN "Mesh" ELSE "None")
          /\ ret[3] = None
    /\ (fn = "get_nature"
        /\ \A i \in 1..Len(args.polygons) : Len(args.polygons[i].coords) >= 3) =>
          /\ ret.kind = "ok"
          /\ Len(ret.trees_nodes) >= Len(args.tree_features)
          /\ Len(ret.objectGroup) >= Len(ret.trees_nodes)
          /\ \A t \in 1..Len(ret.trees_nodes) :
                LET record == ret.objectGroup[PolygonRecords + t]
                IN  /\ record.property = "natural"
                    /\ \A m \in 1..Len(record.displayValue) :
                          record.displayValue[m] # None
                    /\ ~ExceptionOccurs(ret.trees_nodes[t], EnvOf(t)) =>
                          Len(record.displayValue)
                             = (IF ret.trees_nodes[t].id = "forest" THEN 1 ELSE 3)

\* the first tree fails at its canopy and gets an empty record, the second
\* tree gets its three meshes
C20_Witness ==
    /\ fn = "get_nature"
    /\ ret.kind = "ok"
    /\ Len(args.tree_features) = 2
    /\ args.polygons = <<>>
    /\ EnvOf(1).fails = "canopy"
    /\ EnvOf(2).fails = "none"
    /\ Len(ret.objectGroup) = 2
    /\ ret.objectGroup[1].displayValue = <<>>
    /\ Len(ret.objectGroup[2].displayValue) = 3

\* generate_tree returns [canopy, None, None] when the base disc fails
C20_WitnessPartial ==
    /\ fn = "generate_tree"
    /\ args.tree.id = "234"
    /\ args.env.fails = "base"
    /\ ret[1].kind = "Mesh"
    /\ ret[2] = None
    /\ ret[3] = None

(***************************************************************************)
(* generate_points_inside_polygon (utils_geometry.py).  random.random()    *)
(* draws k / MaxSample; a drawn pair and a returned coordinate are kept in *)
(* units of 1 / MaxSample.                                                  *)
(***************************************************************************)
\* resolution of the draws of random.random(): 0, 1/MaxSample, ... < 1
MaxSample == 4

\* most points asked of generate_points_inside_polygon (point_number)
MaxPointNumber == 1

\* the polygons of a forest: a closed triangle and a square
ForestPolygons ==
    {<<Pt(0, 0), Pt(2, 0), Pt(0, 2), Pt(0, 0)>>,
     <<Pt(0, 0), Pt(2, 0), Pt(2, 2), Pt(0, 2)>>}

\* twice the signed area of (a, b, c)
Cross(a, b, c) == (b.x - a.x) * (c.y - a.y) - (b.y - a.y) * (c.x - a.x)

\* shapely's triangulate(polygon): the Delaunay triangles over the vertices
\* of the polygon; which diagonal of a square it takes, where each triangle
\* starts and which way all of them turn is the library's choice
triangulate(polygon) ==
    LET verts == SetOf(polygon)
        tris == {t \in [1..3 -> verts] : Cross(t[1], t[2], t[3]) # 0}
        area2(t) == IF Cross(t[1], t[2], t[3]) > 0 THEN Cross(t[1], t[2], t[3])
                    ELSE 0 - Cross(t[1], t[2], t[3])
        total == IF Cardinality(verts) = 3 THEN 4 ELSE 8
        overlap(t, u) == Cardinality(SetOf(t) \cap SetOf(u))
    IN  {ts \in SeqsOf(tris, 1, 2) :
            /\ area2(ts[1]) + (IF Len(ts) = 2 THEN area2(ts[2]) ELSE 0) = total
            /\ Len(ts) = 2 =>
                  /\ overlap(ts[1], ts[2]) = 2
                  /\ (Cross(ts[1][1], ts[1][2], ts[1][3]) > 0)
                       = (Cross(ts[2][1], ts[2][2], ts[2][3]) > 0)}

\* [x1 - x0, x2 - x0, y2 - y0, y1 - y0, x0, y0] of a triangle
TransformOf(t) ==
    <<t[2].x - t[1].x, t[3].x - t[1].x, t[3].y - t[1].y, t[2].y - t[1].y,
      t[1].x, t[1].y>>

\* the fold of the drawn pair: (1 - x, 1 - y) when x + y > 1
Fold(x, y) ==
    IF x + y > MaxSample THEN Pt(MaxSample - x, MaxSample - y) ELSE Pt(x, y)

\* shapely's affine_transform(p, [a, b, d, e, xoff, yoff]):
\* x' = a x + b y + xoff, y' = d x + e y + yoff
affine_transform(p, matrix) ==
    Pt(matrix[1] * p.x + matrix[2] * p.y + matrix[5] * MaxSample,
       matrix[3] * p.x + matrix[4] * p.y + matrix[6] * MaxSample)

\* the list of coordinates for the triangles the library gave, the triangle
\* random.choices took for each point and the pairs random.random() drew
generate_points_inside_polygon(polygon_pts, point_number, triangles, choices, draws) ==
    LET transforms == [k \in 1..Len(triangles) |-> TransformOf(triangles[k])]
    IN  [k \in 1..point_number |->
            affine_transform(Fold(draws[k][1], draws[k][2]),
                             transforms[choices[k]])]

CallGeneratePoints ==
    /\ fn = "none"
    /\ \E polygon_pts \in ForestPolygons, point_number \in 1..MaxPointNumber :
        \E triangles \in triangulate(polygon_pts) :
          \E choices \in [1..point_number -> 1..Len(triangles)] :
            \E draws \in [1..point_number ->
                            (0..(MaxSample - 1)) \X (0..(MaxSample - 1))] :
              /\ fn' = "generate_points_inside_polygon"
              /\ args' = [polygon_pts |-> polygon_pts,
                          point_number |-> point_number,
                          triangles |-> triangles,
                          choices |-> choices, draws |-> draws]
              /\ ret' = generate_points_inside_polygon(
                            polygon_pts, point_number, triangles, choices, draws)

NextPoints == CallGeneratePoints

SpecPoints == Init /\ [][NextPoints]_vars

\* p (in units of 1 / MaxSample) is inside or on the boundary of triangle t
InTriangle(p, t) ==
    LET S(q) == Pt(q.x * MaxSample, q.y * MaxSample)
        c1 == Cross(S(t[1]), S(t[2]), p)
        c2 == Cross(S(t[2]), S(t[3]), p)
        c3 == Cross(S(t[3]), S(t[1]), p)
    IN  \/ c1 >= 0 /\ c2 >= 0 /\ c3 >= 0
        \/ c1 <= 0 /\ c2 <= 0 /\ c3 <= 0

\* C21: every point generate_points_inside_polygon returns lies inside or on
\* the boundary of the triangle that was selected for it, for every drawn
\* pair, folded when its sum exceeds 1.
C21_PointInsideSelectedTriangle ==
    fn = "generate_points_inside_polygon" =>
        \A k \in 1..args.point_number :
            InTriangle(ret[k], args.triangles[args.choices[k]])

\* C21: the triangle (0,0),(2,0),(0,2) and the pair (3/4, 0): the transform
\* [2, 0, 2, 0, 0, 0] gives (1.5, 1.5), outside the triangle.
C21_FailingInput ==
    /\ fn = "generate_points_inside_polygon"
    /\ args.triangles[args.choices[1]] = <<Pt(0, 0), Pt(2, 0), Pt(0, 2)>>
    /\ args.draws[1] = <<3, 0>>
    /\ ret[1] = Pt(6, 6)

\* C21: the fold acts: a pair whose sum exceeds 1 is reflected, and for a
\* triangle whose two edge vectors from the first vertex have equal
\* ordinates differences exchanged the point is inside.
C21_FoldedPointInside ==
    /\ fn = "generate_points_inside_polygon"
    /\ args.draws[1] = <<3, 3>>
    /\ args.triangles[args.choices[1]] = <<Pt(0, 0), Pt(2, 0), Pt(2, 2)>>
    /\ ret[1] = Pt(4, 2)

(***************************************************************************)
(* automate_function (main.py): one run of the pipeline.  The run is the   *)
(* list of the steps of the try block; the result is the list of calls the *)
(* run made on automate_context, with the exception the handler caught.    *)
(***************************************************************************)
\* the steps of the try block, in the order of the code
RunSteps ==
    <<"query_version_info", "longitude", "latitude", "trueNorth",
      "get_buildings", "get_roads", "get_nature",
      "create_new_version_in_project", "create_image_from_bbox",
      "store_file_result", "mark_run_success">>

\* the steps that stand before the commit
StepsBeforeCommit ==
    {"query_version_info", "longitude", "latitude", "trueNorth",
     "get_buildings", "get_roads", "get_nature"}

Raised(kind, text) == [kind |-> kind, text |-> text]

\* def query_version_info(automate_context, project)
query_version_info_parameters == <<"automate_context", "project">>

\* def get_buildings(lat, lon, r, angle_rad, units), and the same parameters
\* for get_roads and get_nature
get_parameters == <<"lat", "lon", "r", "angle_rad", "units">>

\* the number of parameters without default in the def of the callee
RequiredParameters(callee) ==
    IF callee = "query_version_info"
    THEN Len(query_version_info_parameters) ELSE Len(get_parameters)

\* the number of arguments automate_function passes to the callee
PassedArguments(callee) ==
    CASE callee = "query_version_info" -> 1
      [] callee = "get_buildings" -> 4
      [] callee = "get_roads" -> 4
      [] callee = "get_nature" -> 4

\* a call: TypeError when an argument is missing, else what the body does
Call(callee, body) ==
    IF PassedArguments(callee) < RequiredParameters(callee)
    THEN Raised("TypeError", <<callee, "missing required positional argument">>)
    ELSE body

\* get_features_from_osm_server inside a get_ function: the request or the
\* decoding of the answer raises when the server fails
Retrieval(callee, env) ==
    IF callee \in env.server_fails
    THEN Raised("RequestException", <<callee, "overpass-api.de">>)
    ELSE None

\* what a step raises (None: it returns)
Outcome(step, env, function_inputs) ==
    CASE step = "query_version_info" ->
            Call(step, IF ~env.project_valid
                       THEN Raised("SpeckleException",
                                   <<"Not a valid 'Revit.ProjectInfo' provided">>)
                       ELSE None)
      [] step \in {"longitude", "latitude"} ->
            IF step \in env.projInfo THEN None ELSE Raised("KeyError", <<step>>)
      [] step = "trueNorth" -> None
      [] step \in {"get_buildings", "get_roads"} ->
            Call(step, Retrieval(step, env))
      [] step = "get_nature" ->
            IF function_inputs.include_nature
            THEN Call(step, Retrieval(step, env)) ELSE None
      [] step = "create_new_version_in_project" ->
            IF env.commit_fails
            THEN Raised("SpeckleException", <<"version not created">>) ELSE None
      [] step = "create_image_from_bbox" ->
            IF function_inputs.generate_image /\ env.image_fails
            THEN Raised("Exception", <<"tile request failed">>) ELSE None
      [] OTHER -> None

\* the call a step makes on automate_context when it returns
ContextCalls(step, function_inputs) ==
    CASE step = "create_new_version_in_project" ->
            <<[method |-> step, message |-> <<"Context from Automate">>]>>
      [] step = "store_file_result" ->
            IF function_inputs.generate_image
            THEN <<[method |-> step, message |-> <<"path">>]>> ELSE <<>>
      [] step = "mark_run_success" ->
            <<[method |-> step, message |-> <<"Created 3D context">>]>>
      [] OTHER -> <<>>

\* a handler that leaves the cause out of the message
ExceptHandler_without_cause(ex) ==
    <<[method |-> "mark_run_failed",
       message |-> <<"Failed to create 3d context cause: ">>]>>

\* except Exception as ex: mark_run_failed(f"... cause: {ex}")
ExceptHandler(ex) ==
    <<[method |-> "mark_run_failed",
       message |-> <<"Failed to create 3d context cause: ">> \o ex.text]>>

\* the try block from step k on, with the calls made so far
RECURSIVE RunFrom(_, _, _, _)
RunFrom(k, env, function_inputs, calls) ==
    IF k > Len(RunSteps)
    THEN [calls |-> calls, raised |-> None, step |-> "none"]
    ELSE LET step == RunSteps[k]
             ex == Outcome(step, env, function_inputs)
         IN  IF ex # None
             THEN [calls |-> calls \o ExceptHandler(ex), raised |-> ex,
                   step |-> step]
             ELSE RunFrom(k + 1, env, function_inputs,
                          calls \o ContextCalls(step, function_inputs))

automate_function(env, function_inputs) == RunFrom(1, env, function_inputs, <<>>)

\* the fields the project info holds
ProjectInfos == SUBSET {"longitude", "latitude", "trueNorth"}

\* the servers of a run: the project info, the retrievals that fail, the
\* commit and the map tiles
RunEnvs ==
    [project_valid : BOOLEAN, projInfo : ProjectInfos,
     server_fails : SUBSET {"get_buildings", "get_roads", "get_nature"},
     commit_fails : BOOLEAN, image_fails : BOOLEAN]

FunctionInputs == [include_nature : BOOLEAN, generate_image : BOOLEAN]

CallAutomateFunction ==
    /\ fn = "none"
    /\ \E env \in RunEnvs, function_inputs \in FunctionInputs :
          /\ fn' = "automate_function"
          /\ args' = [env |-> env, function_inputs |-> function_inputs]
          /\ ret' = automate_function(env, function_inputs)

NextRun == CallAutomateFunction

SpecRun == Init /\ [][NextRun]_vars

\* the run called the method on automate_context
Called(method) == \E k \in 1..Len(ret.calls) : ret.calls[k].method = method

\* the message holds the words of text, in order, at its end
EndsWith(message, text) ==
    /\ Len(message) >= Len(text)
    /\ SubSeq(message, Len(message) - Len(text) + 1, Len(message)) = text

MaxRoadWays == 2

\* units of length and get_scale_factor_to_meters(units), in 1/10000
RoadUnits == {"m", "cm", "mm"}

get_scale_factor_to_meters(units) ==
    CASE units = "m" -> 10000 [] units = "cm" -> 100 [] units = "mm" -> 10

\* Polyline.from_points(points) with closed, units = "m" and the source
join_roads(coords, closed_flag, height) ==
    [kind |-> "Polyline",
     points |-> [k \in 1..Len(coords) |-> [c |-> coords[k], z |-> 0]],
     closed |-> closed_flag, units |-> "m",
     sourceData |-> "(c) OpenStreetMap",
     sourceUrl |-> "https://www.openstreetmap.org/"]

\* value = 2 / scale_factor, 9 for primary and 6 for secondary, in tenths
RoadValue(tag, scale_factor) ==
    LET metres == IF tag.highway = "primary" THEN 9
                  ELSE IF tag.highway = "secondary" THEN 6 ELSE 2
    IN  [kind |-> "float", tenths |-> (metres * 100000) \div scale_factor]

\* the coordinates of the nodes of the way, without the closing id; each is
\* the projected node divided by scale_factor, rotated when there is an angle
RoadCoords(ids, scale_factor, angle_rad) ==
    LET kept == IF closed(ids) THEN SubSeq(ids, 1, Len(ids) - 1) ELSE ids
    IN  [k \in 1..Len(kept) |->
            [node |-> kept[k], scale_factor |-> scale_factor,
             rotate_pt |-> angle_rad]]

\* the record after objMesh.units = units and mesh.units = units
WithUnits(objMesh, units) ==
    [objMesh EXCEPT
        !.units = units,
        !.displayValue = [k \in 1..Len(objMesh.displayValue) |->
                            [objMesh.displayValue[k] EXCEPT !.units = units]]]

\* obj = join_roads(...); obj.units = units only in the branch of an angle
RoadPolyline(coords, closed_flag, angle_rad, units) ==
    IF angle_rad = 0 THEN join_roads(coords, closed_flag, 0)
    ELSE [join_roads(coords, closed_flag, 0) EXCEPT !.units = units]

\* the loop over the ways, from way i
RECURSIVE RoadsFrom(_, _, _, _, _, _, _, _)
RoadsFrom(ways, tags, i, angle_rad, units, ring, objectGroup, meshGroup) ==
    IF i >= Len(ways)
    THEN [kind |-> "ok", objectGroup |-> objectGroup, meshGroup |-> meshGroup]
    ELSE LET scale_factor == get_scale_factor_to_meters(units)
             ids == At(ways, i).nodes
             value == RoadValue(At(tags, i), scale_factor)
             coords == RoadCoords(ids, scale_factor, angle_rad)
             obj == RoadPolyline(coords, closed(ids), angle_rad, units)
             area == CHOOSE a \in
                        {b \in BufferAreas(coords, value) :
                            b.coordinates = <<>> \/ b.coordinates = <<ring>>} : TRUE
             objMesh == road_buffer(obj, value, 20000 \div scale_factor, area)
         IN  IF AreaYes(At(tags, i))
             THEN RoadsFrom(ways, tags, i + 1, angle_rad, units, ring,
                            objectGroup, meshGroup)
             ELSE IF objMesh.kind # "Base" THEN objMesh
             ELSE RoadsFrom(ways, tags, i + 1, angle_rad, units, ring,
                            Append(objectGroup, obj),
                            Append(meshGroup, WithUnits(objMesh, units)))

\* get_roads from the collected ways on: the split at the intersections,
\* then the loop; ring is what the geometry library gives as buffer
get_roads(ways, tags, angle_rad, units, ring) ==
    LET split == split_ways_by_intersection(ways, tags)
    IN  IF split.kind # "ok" THEN split
        ELSE RoadsFrom(split.splitWays, split.splitTags, 0, angle_rad, units,
                       ring, <<>>, <<>>)

\* ways of a retrieval: a street, a closed ring, a way of one node
RoadNodeLists == {<<0, 1>>, <<0, 1, 2, 0>>, <<0>>}

RoadTags ==
    {[highway |-> "primary"], [highway |-> "secondary"],
     [highway |-> "residential"], [highway |-> "residential", area |-> "yes"]}

\* true-north angles: none, and one that is not 0
AngleRads == {0, 1}

CallGetRoads ==
    /\ fn = "none"
    /\ \E n \in 0..MaxRoadWays :
        \E nodes \in [1..n -> RoadNodeLists], tags \in [1..n -> RoadTags],
           angle_rad \in AngleRads, units \in RoadUnits, ring \in BufferRings :
          LET ways == [k \in 1..n |-> [id |-> k, nodes |-> nodes[k]]]
          IN  /\ fn' = "get_roads.roads"
              /\ args' = [ways |-> ways, tags |-> tags, angle_rad |-> angle_rad,
                          units |-> units, ring |-> ring]
              /\ ret' = get_roads(ways, tags, angle_rad, units, ring)

NextRoads == CallGetRoads

SpecRoads == Init /\ [][NextRoads]_vars

\* C23: every polyline of the first list and every ribbon record and ribbon
\* mesh of the second list returned by get_roads has the units the caller
\* asked for, for every angle and every unit.
C23_UnitsAsRequested ==
    (fn = "get_roads.roads" /\ ret.kind = "ok") =>
        /\ \A k \in 1..Len(ret.objectGroup) :
              ret.objectGroup[k].units = args.units
        /\ \A k \in 1..Len(ret.meshGroup) :
              /\ ret.meshGroup[k].units = args.units
              /\ \A j \in 1..Len(ret.meshGroup[k].displayValue) :
                    ret.meshGroup[k].displayValue[j].units = args.units

\* C23: one street, no true-north angle, millimetres: the polyline comes
\* in "m", its ribbon in "mm".
C23_FailingInput ==
    /\ fn = "get_roads.roads"
    /\ args.angle_rad = 0
    /\ args.units = "mm"
    /\ Len(args.ways) = 1
    /\ ret.kind = "ok"
    /\ Len(ret.objectGroup) = 1
    /\ ret.objectGroup[1].units = "m"
    /\ ret.meshGroup[1].units = "mm"

\* C23: the ribbons and their meshes always have the units asked for, and
\* so have the polylines when the angle is not 0 or the unit is "m".
C23_RibbonUnits ==
    (fn = "get_roads.roads" /\ ret.kind = "ok") =>
        /\ \A k \in 1..Len(ret.meshGroup) :
              /\ ret.meshGroup[k].units = args.units
              /\ \A j \in 1..Len(ret.meshGroup[k].displayValue) :
                    ret.meshGroup[k].displayValue[j].units = args.units
        /\ (args.angle_rad # 0 \/ args.units = "m") =>
              \A k \in 1..Len(ret.objectGroup) :
                  ret.objectGroup[k].units = args.units

\* C23: the case of test_get_roads: angle 0 and metres, a street with its
\* ribbon.
C23_TestCase ==
    /\ fn = "get_roads.roads"
    /\ args.angle_rad = 0
    /\ args.units = "m"
    /\ ret.kind = "ok"
    /\ Len(ret.objectGroup) = 2
    /\ Len(ret.meshGroup) = 2

(***************************************************************************)
(* get_nature: how often a polygon way is taken.                            *)
(***************************************************************************)
\* the forest markers among the trees of a finished run
ForestMarkers ==
    Cardinality({t \in 1..Len(ret.trees_nodes) : ret.trees_nodes[t].id = "forest"})

\* C24: each green polygon way is consumed once per run of get_nature: it
\* yields exactly one flat-mesh record, and a forest one set of sampled
\* trees, whichever keyword matched it.
C24_PolygonConsumedOnce ==
    (fn = "get_nature" /\ ret.kind = "ok") =>
        /\ PolygonRecords = Len(args.polygons)
        /\ ForestMarkers =
              Len(Flatten([k \in 1..Len(args.polygons) |->
                              ForestTrees(args.polygons[k])]))

\* C24: one way tagged landuse = grass with three nodes and no tree: the
\* run gives three records of the same flat mesh.
C24_FailingInput ==
    /\ fn = "get_nature"
    /\ Len(args.polygons) = 1
    /\ args.polygons[1].keyword = "landuse"
    /\ args.polygons[1].value = "grass"
    /\ args.tree_features = <<>>
    /\ ret.kind = "ok"
    /\ Len(ret.objectGroup) = 3
    /\ ret.objectGroup[1] = ret.objectGroup[2]
    /\ ret.objectGroup[2] = ret.objectGroup[3]

\* C24: a forest square under landuse is sampled on each of the three
\* passes: nine markers.
C24_FailingInputForest ==
    /\ fn = "get_nature"
    /\ Len(args.polygons) = 1
    /\ args.polygons[1].value = "forest"
    /\ args.polygons[1].coords = Square
    /\ ret.kind = "ok"
    /\ ForestMarkers = 9

\* C24: a polygon yields one record for the pass of its keyword and one
\* for every later pass: three under landuse, two under natural, one under
\* leisure.
C24_OneRecordPerPassLeft ==
    (fn = "get_nature" /\ ret.kind = "ok" /\ Len(args.polygons) = 1) =>
        PolygonRecords =
            (CASE args.polygons[1].keyword = "landuse" -> 3
               [] args.polygons[1].keyword = "natural" -> 2
               [] args.polygons[1].keyword = "leisure" -> 1)

\* C24: a way tagged leisure = park is taken once.
C24_LeisureOnce ==
    /\ fn = "get_nature"
    /\ Len(args.polygons) = 1
    /\ args.polygons[1].keyword = "leisure"
    /\ ret.kind = "ok"
    /\ PolygonRecords = 1

(***************************************************************************)
(* The windings of the faces of the simple extrusion.                       *)
(***************************************************************************)
\* the vertex order of the bottom face and of the top face of the mesh
BottomOrder == SubSeq(ret.faces, 2, Len(args.coords) + 1)

TopOrder == SubSeq(ret.faces, Len(args.coords) + 3, 2 * Len(args.coords) + 2)

\* the points of the ring in the order of the bottom face
BottomTraversal ==
    [k \in 1..Len(args.coords) |-> At(Tuples(args.coords), BottomOrder[k])]

\* C25: in the simple extrusion of a ring of N >= 3 points the bottom face
\* traverses the ring clockwise (shoelace sum >= 0) whatever the winding of
\* the input, and the top face's order, N subtracted from each index, is
\* the reverse of the bottom face's order.
C25_BottomClockwiseTopReversed ==
    (fn = "extrude_building_simple" /\ Len(args.coords) >= 3) =>
        /\ ret.kind = "Mesh"
        /\ ret.faces[1] = Len(args.coords)
        /\ ret.faces[Len(args.coords) + 2] = Len(args.coords)
        /\ sum_orientation(BottomTraversal, 1) >= 0
        /\ [k \in 1..Len(args.coords) |-> TopOrder[k] - Len(args.coords)]
              = Reverse(BottomOrder)

\* C25: a counter-clockwise triangle: the bottom face is reversed, the top
\* face keeps the order of the ring.
C25_Witness ==
    /\ fn = "extrude_building_simple"
    /\ args.coords = <<Pt(0, 0), Pt(2, 0), Pt(0, 2)>>
    /\ sum_orientation(Tuples(args.coords), 1) < 0
    /\ BottomOrder = <<2, 1, 0>>
    /\ TopOrder = <<3, 4, 5>>
    /\ sum_orientation(BottomTraversal, 1) > 0

\* C25: the clockwise square of the tests: the bottom face keeps the order
\* of the ring, the top face is reversed.
C25_WitnessClockwise ==
    /\ fn = "extrude_building_simple"
    /\ args.coords = Square
    /\ BottomOrder = <<0, 1, 2, 3>>
    /\ TopOrder = <<7, 6, 5, 4>>

(***************************************************************************)
(* create_side_face: one call for an edge of a ring, with either flag.     *)
(***************************************************************************)
\* heights of a wall: of the tests, of the engine, and none
SideHeights == Heights \cup {5, 0}

CallCreateSideFace ==
    /\ fn = "none"
    /\ \E coords \in OuterRings \ {<<>>}, height \in SideHeights,
          clockwise_orientation \in BOOLEAN :
        \E i \in 0..(Len(coords) - 1) :
          /\ fn' = "create_side_face"
          /\ args' = [coords |-> coords, i |-> i,
                      next_coord_index |-> NextCoord(coords, i),
                      height |-> height,
                      clockwise_orientation |-> clockwise_orientation]
          /\ ret' = create_side_face(coords, i, NextCoord(coords, i), height,
                                     clockwise_orientation)

NextSide == CallCreateSideFace

SpecSide == Init /\ [][NextSide]_vars

\* vertex number k (from 1) of the quad
QuadVertex(k) == <<ret[3 * k - 2], ret[3 * k - 1], ret[3 * k]>>

\* the right-hand normal of the quad: (v2 - v1) x (v3 - v2)
QuadNormal ==
    LET a == [k \in 1..3 |-> QuadVertex(2)[k] - QuadVertex(1)[k]]
        b == [k \in 1..3 |-> QuadVertex(3)[k] - QuadVertex(2)[k]]
    IN  <<a[2] * b[3] - a[3] * b[2], a[3] * b[1] - a[1] * b[3],
          a[1] * b[2] - a[2] * b[1]>>

\* the ring is a proper polygon and the flag is what fix_orientation says
ClassifiedRing ==
    /\ Len(args.coords) >= 3
    /\ Cardinality(SetOf(args.coords)) = Len(args.coords)
    /\ sum_orientation(Tuples(args.coords), 1) # 0
    /\ args.clockwise_orientation
          = fix_orientation(Tuples(args.coords), Range(0, Len(args.coords)),
                            TRUE, 1).clockwise

\* C26: create_side_face gives for the edge p_i -> p_next the quad
\* (p_i,0),(p_next,0),(p_next,h),(p_i,h) when the ring was classified not
\* clockwise (positions 8 and 11 hold the height) and
\* (p_i,0),(p_i,h),(p_next,h),(p_next,0) when clockwise; for h > 0 the
\* right-hand normal points to the right of the edge for a ring that is not
\* clockwise and to the left for a clockwise ring, which is the exterior
\* side: no point of the ring lies on that side of the edge.
C26_SideQuadFacesOutward ==
    fn = "create_side_face" =>
        LET p == At(args.coords, args.i)
            q == args.next_coord_index
            h == args.height
            dx == q.x - p.x
            dy == q.y - p.y
        IN  /\ QuadVertex(1) = <<p.x, p.y, 0>>
            /\ ~args.clockwise_orientation =>
                  /\ QuadVertex(2) = <<q.x, q.y, 0>>
                  /\ QuadVertex(3) = <<q.x, q.y, h>>
                  /\ QuadVertex(4) = <<p.x, p.y, h>>
                  /\ At(ret, 8) = h /\ At(ret, 11) = h
                  /\ QuadNormal = <<h * dy, 0 - h * dx, 0>>
            /\ args.clockwise_orientation =>
                  /\ QuadVertex(2) = <<p.x, p.y, h>>
                  /\ QuadVertex(3) = <<q.x, q.y, h>>
                  /\ QuadVertex(4) = <<q.x, q.y, 0>>
                  /\ QuadNormal = <<0 - h * dy, h * dx, 0>>
            /\ (h > 0 /\ ClassifiedRing) =>
                  /\ QuadNormal # <<0, 0, 0>>
                  /\ \A k \in 1..Len(args.coords) :
                        QuadNormal[1] * (args.coords[k].x - p.x)
                          + QuadNormal[2] * (args.coords[k].y - p.y) <= 0

\* C26: the case of tests_create_side_face: edge 2 of the square, height 5,
\* flag False.
C26_Witness ==
    /\ fn = "create_side_face"
    /\ args.coords = Square
    /\ args.i = 2
    /\ args.height = 5
    /\ args.clockwise_orientation = FALSE
    /\ ret = <<-5, -5, 0, -5, 5, 0, -5, 5, 5, -5, -5, 5>>

\* C26: an edge of the clockwise square with the flag fix_orientation
\* gives: the normal of the wall from (5,5) to (5,-5) points to +x.
C26_WitnessClockwise ==
    /\ fn = "create_side_face"
    /\ args.coords = Square
    /\ args.i = 0
    /\ args.height = 10
    /\ ClassifiedRing
    /\ args.clockwise_orientation = TRUE
    /\ QuadNormal = <<100, 0, 0>>

\* C26: an edge of a counter-clockwise triangle with the flag
\* fix_orientation gives: the normal of the wall from (0,0) to (2,0) points
\* to -y.
C26_WitnessCounterClockwise ==
    /\ fn = "create_side_face"
    /\ args.coords = <<Pt(0, 0), Pt(2, 0), Pt(0, 2)>>
    /\ args.i = 0
    /\ args.height = 10
    /\ ClassifiedRing
    /\ args.clockwise_orientation = FALSE
    /\ QuadNormal = <<0, -20, 0>>

(***************************************************************************)
(* The mesh builders together: one call of one of them.                     *)
(***************************************************************************)
NextMeshes ==
    \/ CallCreateFlatMesh
    \/ CallExtrudeBuildingSimple
    \/ CallExtrudeBuildingComplex
    \/ CallRoadBuffer
    \/ CallGenerateTree

SpecMeshes == Init /\ [][NextMeshes]_vars

\* the face list is a sequence of runs [k, i1..ik] with every index from 0
\* to below vertex_count
RECURSIVE WellFormedFaces(_, _)
WellFormedFaces(faces, vertex_count) ==
    \/ faces = <<>>
    \/ /\ Head(faces) >= 1
       /\ Len(faces) >= Head(faces) + 1
       /\ \A j \in 2..(Head(faces) + 1) :
             faces[j] >= 0 /\ faces[j] < vertex_count
       /\ WellFormedFaces(SubSeq(faces, Head(faces) + 2, Len(faces)),
                          vertex_count)

MeshBufferInvariant(mesh) ==
    /\ Len(mesh.vertices) % 3 = 0
    /\ Len(mesh.colors) = Len(mesh.vertices) \div 3
    /\ WellFormedFaces(mesh.faces, Len(mesh.vertices) \div 3)

\* the meshes the call built that C27 is about: the mesh returned, the mesh
\* of the ribbon record, the two discs of the tree
BuiltMeshes ==
    CASE fn \in {"create_flat_mesh", "extrude_building_simple",
                 "extrude_building_complex"} ->
            IF ret.kind = "Mesh" THEN {ret} ELSE {}
      [] fn = "road_buffer" ->
            IF ret.kind = "Base" THEN SetOf(ret.displayValue) ELSE {}
      [] fn = "generate_tree" ->
            IF DOMAIN ret = 1..3
            THEN {ret[k] : k \in {j \in 2..3 : ret[j].kind = "Mesh"}}
            ELSE {}
      [] OTHER -> {}

\* C27: every mesh built by create_flat_mesh, extrude_building_simple,
\* extrude_building_complex, road_buffer and the two disc meshes of
\* generate_tree has as many colours as vertices (a third of the
\* coordinate values), a face list of runs [k, i1..ik] and every face index
\* from 0 to below the vertex count.
C27_MeshBufferInvariant ==
    \A mesh \in BuiltMeshes : MeshBufferInvariant(mesh)

\* C27: the triangulated extrusion of the square with its void: 2 * 3 * 8
\* vertices of triangles and 4 * 8 of walls, each with its colour.
C27_Witness ==
    /\ fn = "extrude_building_complex"
    /\ args.coords = Square
    /\ args.coords_inner = <<SquareVoid>>
    /\ args.lib.raises = {}
    /\ ret.kind = "Mesh"
    /\ Len(ret.colors) >= 2 * 3 * 8 + 4 * 8
    /\ MeshBufferInvariant(ret)

\* C27: a ribbon of a road and the two discs of a tree.
C27_WitnessRibbon ==
    /\ fn = "road_buffer"
    /\ ret.kind = "Base"
    /\ Len(ret.displayValue[1].colors) = 5
    /\ MeshBufferInvariant(ret.displayValue[1])

C27_WitnessDiscs ==
    /\ fn = "generate_tree"
    /\ DOMAIN ret = 1..3
    /\ ret[2].kind = "Mesh"
    /\ ret[3].kind = "Mesh"
    /\ Len(ret[3].colors) = steps
    /\ MeshBufferInvariant(ret[2])
    /\ MeshBufferInvariant(ret[3])

(***************************************************************************)
(* The stitching of one relation whose outer members are the ways of the   *)
(* pool, in the order of the pool.                                          *)
(***************************************************************************)
\* most fragments of the relation
MaxChain == 3

\* node lists of the fragments: of one node, of two, and some of three
ChainFragments ==
    SeqsOf(0..2, 1, 2) \cup {<<0, 1, 2>>, <<2, 1, 0>>, <<1, 2, 0>>}

\* the pool of the fragments f: ways with the ids 1, 2, ...
ChainPool(f) == [k \in 1..Len(f) |-> [id |-> k, nodes |-> f[k]]]

CallStitchChainBuildings ==
    /\ fn = "none"
    /\ \E len \in 1..MaxChain :
        \E f \in [1..len -> ChainFragments] :
          /\ fn' = "get_buildings"
          /\ args' = [ways_part |-> ChainPool(f),
                      rel_outer_ways |-> <<Range(1, len + 1)>>]
          /\ ret' = StitchBuildings(<<Range(1, len + 1)>>, << <<>> >>,
                                    0, <<>>, ChainPool(f), <<>>)

CallStitchChainNature ==
    /\ fn = "none"
    /\ \E len \in 1..MaxChain :
        \E f \in [1..len -> ChainFragments] :
          /\ fn' = "get_nature"
          /\ args' = [ways_part |-> ChainPool(f),
                      rel_outer_ways |-> <<Range(1, len + 1)>>]
          /\ ret' = StitchNature(<<Range(1, len + 1)>>, 0, <<>>,
                                 ChainPool(f), <<>>)

NextChain == CallStitchChainBuildings \/ CallStitchChainNature

SpecChain == Init /\ [][NextChain]_vars

\* the fragment turned so that it starts at node joint
TurnedTo(frag, joint) == IF frag[1] = joint THEN frag ELSE Reverse(frag)

\* the path of the first k fragments of a chain: each fragment after the
\* first starts at the end of the path and adds its further nodes
RECURSIVE PathOf(_, _)
PathOf(frags, k) ==
    IF k = 1 THEN frags[1]
    ELSE LET path == PathOf(frags, k - 1)
         IN  path \o Tail(TurnedTo(frags[k], path[Len(path)]))

\* the fragments form a chain: each has two nodes or more, each after the
\* first has one endpoint at the end of the path so far and no other node
\* on it, except that the last one may end at the first node of the ring
IsChain(frags) ==
    /\ \A k \in 1..Len(frags) : Len(frags[k]) >= 2
    /\ \A k \in 2..Len(frags) :
          LET path == PathOf(frags, k - 1)
              joint == path[Len(path)]
              turned == TurnedTo(frags[k], joint)
          IN  /\ turned[1] = joint
              /\ \A j \in 2..Len(turned) :
                    \/ ~In(turned[j], path)
                    \/ k = Len(frags) /\ j = Len(turned) /\ turned[j] = path[1]

\* the fragments of the pool of the call
PoolFragments == [k \in 1..Len(args.ways_part) |-> args.ways_part[k].nodes]

\* C28: outer-ring stitching in get_buildings and get_nature turns a
\* fragment round exactly when the accumulator is not empty and its last
\* node is not the first node of the fragment, and leaves the joint node
\* out: for fragments forming a chain the stitched sequence is the nodes of
\* the chain in path order, each joint node once, and ends with the first
\* node when the last fragment closes the ring.
C28_ChainStitchedInPathOrder ==
    (fn \in {"get_buildings", "get_nature"} /\ IsChain(PoolFragments)) =>
        /\ ret.kind = "ok"
        /\ Len(ret.ways) = 1
        /\ ret.ways[1].nodes = PathOf(PoolFragments, Len(PoolFragments))

\* C28: three fragments of a ring, the second and the third the wrong way
\* round: the ring 0, 1, 2, 0.
C28_Witness ==
    /\ fn = "get_buildings"
    /\ PoolFragments = <<<<0, 1>>, <<2, 1>>, <<0, 2>>>>
    /\ IsChain(PoolFragments)
    /\ ret.ways[1].nodes = <<0, 1, 2, 0>>

C28_WitnessNature ==
    /\ fn = "get_nature"
    /\ PoolFragments = <<<<1, 2, 0>>, <<1, 0>>>>
    /\ IsChain(PoolFragments)
    /\ ret.ways[1].nodes = <<1, 2, 0, 1>>

\* C28: a way of one node is no link of a chain: its node is the last of
\* its list and is kept, after the same node of the accumulator.
C28_OneNodeFragment ==
    /\ fn = "get_nature"
    /\ PoolFragments = <<<<0, 1>>, <<1>>>>
    /\ ret.ways[1].nodes = <<0, 1, 1>>

(***************************************************************************)
(* get_nature: a polygon way whose ring is too short for a mesh.            *)
(***************************************************************************)
\* the polygons of the call whose ring has fewer than 3 points
ShortPolygons ==
    {k \in 1..Len(args.polygons) : Len(args.polygons[k].coords) < 3}

\* C29: in get_nature a polygon way whose ring has fewer than 3 points is
\* rejected without aborting the run: the run returns its list, and the
\* list holds no record for that way.
C29_ShortRingRejected ==
    (fn = "get_nature" /\ ShortPolygons # {}) =>
        /\ ret.kind = "ok"
        /\ \A r \in 1..Len(ret.objectGroup) :
              ret.objectGroup[r].property = "keyword" =>
                  \E k \in (1..Len(args.polygons)) \ ShortPolygons :
                      ret.objectGroup[r].value = args.polygons[k].value

\* C29: one way tagged leisure = park of which two nodes were found:
\* obj.units = units meets None and the run ends with AttributeError.
C29_FailingInput ==
    /\ fn = "get_nature"
    /\ Len(args.polygons) = 1
    /\ args.polygons[1].keyword = "leisure"
    /\ Len(args.polygons[1].coords) = 2
    /\ ret.kind = "AttributeError"

\* C29: every run over a polygon of fewer than 3 points ends with
\* AttributeError, whatever its keyword and the trees beside it.
C29_ShortRingRaises ==
    (fn = "get_nature" /\ ShortPolygons # {}) => ret.kind = "AttributeError"

(***************************************************************************)
(* get_nature from the retrieved elements on.  An element is                *)
(* [type, id, keyword, value, nodes, members, xy]: keyword and value are    *)
(* its tag among landuse, natural and leisure ("" when it has none), nodes  *)
(* the node ids of a way, members the refs of the outer ways of a relation, *)
(* xy the place of a node.                                                  *)
(***************************************************************************)
all_green_polygons ==
    {"forest", "meadow", "grass", "scrub", "grassland",
     "nature_reserve", "garden", "park", "playground"}

\* the lists of get_nature before the first pass
NatureLists ==
    [ways |-> <<>>, tags |-> <<>>, rel_outer_ways |-> <<>>,
     rel_outer_ways_tags |-> <<>>, ways_part |-> <<>>, trees_nodes |-> <<>>,
     nodes |-> <<>>]

\* {keyword: value, "trees": trees}
NatureTag(keyword, value) ==
    [key |-> keyword, value |-> value,
     trees |-> IF value = "forest" THEN "trees" ELSE ""]

\* the loop over features of the pass of keyword, from feature f; a
\* missing tag raises KeyError inside the try of the branch
RECURSIVE CollectFrom(_, _, _, _)
CollectFrom(features, f, keyword, st) ==
    IF f >= Len(features) THEN st
    ELSE LET feature == At(features, f)
             green == feature.value \in all_green_polygons
             next ==
               CASE feature.type = "way" ->
                      IF feature.keyword # keyword
                      THEN [st EXCEPT !.ways_part =
                               Append(@, [id |-> feature.id,
                                          nodes |-> feature.nodes])]
                      ELSE IF ~green THEN st
                      ELSE [st EXCEPT
                               !.tags = Append(@, NatureTag(keyword, feature.value)),
                               !.ways = Append(@, [nodes |-> feature.nodes])]
                 [] feature.type = "relation" ->
                      IF feature.keyword # keyword \/ ~green THEN st
                      ELSE [st EXCEPT
                               !.rel_outer_ways = Append(@, feature.members),
                               !.rel_outer_ways_tags =
                                   Append(@, NatureTag(keyword, feature.value))]
                 [] feature.type = "node" ->
                      IF feature.keyword # keyword
                      THEN [st EXCEPT !.nodes =
                               Append(@, [id |-> feature.id, xy |-> feature.xy])]
                      ELSE IF feature.value = "tree"
                      THEN [st EXCEPT !.trees_nodes =
                               Append(@, [id |-> feature.id,
                                          coords |-> feature.xy])]
                      ELSE st
         IN  CollectFrom(features, f + 1, keyword, next)

\* turn relations_OUTER into ways, from relation n: the way is appended,
\* then the tag entry, whose rel_outer_ways_tags[n][keyword] raises KeyError
\* for a relation collected under another keyword
RECURSIVE RelationsToWays(_, _, _)
RelationsToWays(n, keyword, st) ==
    IF n >= Len(st.rel_outer_ways) THEN [kind |-> "ok", st |-> st]
    ELSE LET o == JoinOuter(n, At(st.rel_outer_ways, n), 0, <<>>,
                            st.ways_part, <<>>)
             joined == [st EXCEPT !.ways = Append(@, [nodes |-> o.nodes]),
                                  !.ways_part = o.ways_part]
             tag == At(st.rel_outer_ways_tags, n)
         IN  IF tag.key # keyword
             THEN [kind |-> "KeyError", st |-> joined]
             ELSE RelationsToWays(n + 1, keyword,
                                  [joined EXCEPT !.tags = Append(@, tag)])

\* the coordinates of the nodes of the way that are among nodes, the last
\* id of the way left out
ResolvedCoords(ids, nodes) ==
    LET Known(id) == \E n \in 1..Len(nodes) : nodes[n].id = id
        XY(id) == nodes[CHOOSE n \in 1..Len(nodes) :
                            /\ nodes[n].id = id
                            /\ \A j \in 1..(n - 1) : nodes[j].id # id].xy
        found == SelectSeq(SubSeq(ids, 1, Len(ids) - 1), Known)
    IN  [k \in 1..Len(found) |-> XY(found[k])]

\* the passes from keyword number p on; lengths holds len(ways) and
\* len(tags) as each pass left them
RECURSIVE ElementPasses(_, _, _, _, _)
ElementPasses(p, features, st, objectGroup, lengths) ==
    IF p >= Len(all_keywords)
    THEN [kind |-> "ok", trees_nodes |-> st.trees_nodes,
          objectGroup |-> objectGroup, lengths |-> lengths]
    ELSE LET keyword == At(all_keywords, p)
             r == RelationsToWays(0, keyword,
                                  CollectFrom(features, 0, keyword, st))
             ls == Append(lengths, <<Len(r.st.ways), Len(r.st.tags)>>)
             polys == [i \in 1..Len(r.st.ways) |->
                         [coords |-> ResolvedCoords(r.st.ways[i].nodes, r.st.nodes),
                          value |-> r.st.tags[i].value,
                          trees |-> r.st.tags[i].trees]]
             m == NaturePolygons(polys, 0, r.st.trees_nodes, objectGroup)
         IN  IF r.kind # "ok" THEN [kind |-> r.kind, lengths |-> ls]
             ELSE IF m.kind # "ok" THEN [kind |-> m.kind, lengths |-> ls]
             ELSE ElementPasses(p + 1, features,
                                [r.st EXCEPT !.trees_nodes = m.trees_nodes],
                                m.objectGroup, ls)

\* get_nature over the retrieved elements
get_nature_elements(features, scale_factor, envs) ==
    LET r == ElementPasses(0, features, NatureLists, <<>>, <<>>)
    IN  IF r.kind # "ok" THEN r
        ELSE [kind |-> "ok", trees_nodes |-> r.trees_nodes,
              objectGroup |-> NatureTrees(r.trees_nodes, scale_factor, envs,
                                          r.objectGroup),
              lengths |-> r.lengths]

Element(type, id, keyword, value, nodes, members, xy) ==
    [type |-> type, id |-> id, keyword |-> keyword, value |-> value,
     nodes |-> nodes, members |-> members, xy |-> xy]

\* ids are written as strings, as the id "forest" of a sampled tree is
SquareIds == <<"0", "1", "2", "3">>

\* the four nodes of the square of the tests
SquareNodes ==
    [k \in 1..4 |-> Element("node", SquareIds[k], "", "", <<>>, <<>>, Square[k])]

\* the outer ring of a relation: one closed way, or two halves, the second
\* the wrong way round
OuterWays ==
    {<<Element("way", "w1", "", "", <<"0", "1", "2", "0">>, <<>>, Pt(0, 0))>>,
     <<Element("way", "w1", "", "", <<"0", "1", "2", "3">>, <<>>, Pt(0, 0)),
       Element("way", "w2", "", "", <<"0", "3">>, <<>>, Pt(0, 0))>>}

\* relations: green ones under each keyword, and one that is not green;
\* the member "w7" is not among the retrieved ways
NatureRelations ==
    {Element("relation", "r9", kv[1], kv[2], <<>>, m, Pt(0, 0)) :
        kv \in {<<"landuse", "forest">>, <<"landuse", "grass">>,
                <<"natural", "scrub">>, <<"leisure", "park">>,
                <<"leisure", "pitch">>},
        m \in {<<"w1">>, <<"w1", "w2">>, <<"w2", "w1">>, <<"w7">>}}

\* ways and a node with a tag of their own
TaggedElements ==
    <<Element("way", "w5", "landuse", "grass", <<"0", "1", "2", "0">>, <<>>, Pt(0, 0)),
      Element("way", "w6", "leisure", "park", <<"1", "2", "3", "1">>, <<>>, Pt(0, 0)),
      Element("node", "234", "natural", "tree", <<>>, <<>>, Pt(10, 20))>>

CallGetNatureElements ==
    /\ fn = "none"
    /\ \E relations \in SeqsOf(NatureRelations, 0, 1), outer \in OuterWays,
          tagged \in SUBSET (1..Len(TaggedElements)), env \in BatchEnvs :
          LET picked == [k \in 1..Len(TaggedElements) |->
                            IF k \in tagged THEN <<TaggedElements[k]>> ELSE <<>>]
              features == relations \o outer
                            \o picked[1] \o picked[2] \o picked[3]
                            \o SquareNodes
          IN  /\ fn' = "get_nature.elements"
              /\ args' = [features |-> features, scale_factor |-> 10000,
                          envs |-> <<env>>]
              /\ ret' = get_nature_elements(features, 10000, <<env>>)

NextElements == CallGetNatureElements

SpecElements == Init /\ [][NextElements]_vars

\* the elements hold a green multipolygon relation
HasGreenRelation ==
    \E k \in 1..Len(args.features) :
        /\ args.features[k].type = "relation"
        /\ args.features[k].value \in all_green_polygons

\* the keyword of the relation of the elements
RelationKeyword ==
    args.features[CHOOSE k \in 1..Len(args.features) :
                      args.features[k].type = "relation"].keyword

\* C30: get_nature completes without raising for every element set that
\* holds a green multipolygon relation, under landuse, natural or leisure
\* alike, and the lists ways and tags have the same length after every pass.
C30_RelationRunCompletes ==
    (fn = "get_nature.elements" /\ HasGreenRelation)
        => /\ ret.kind = "ok"
           /\ Len(ret.lengths) = Len(all_keywords)
           /\ \A p \in 1..Len(ret.lengths) : ret.lengths[p][1] = ret.lengths[p][2]

\* C30: a relation tagged landuse=forest whose outer member is one closed
\* way of found nodes: the pass of "natural" appends its way and then
\* raises KeyError, ways one entry longer than tags.
C30_FailingInput ==
    /\ fn = "get_nature.elements"
    /\ Len(args.features) = 6
    /\ args.features[1].type = "relation"
    /\ args.features[1].keyword = "landuse"
    /\ args.features[1].value = "forest"
    /\ args.features[1].members = <<"w1">>
    /\ args.features[2].nodes = <<"0", "1", "2", "0">>
    /\ ret.kind = "KeyError"
    /\ ret.lengths = <<<<1, 1>>, <<2, 1>>>>

\* C30: a green relation under landuse or natural never lets the call
\* complete, and one under leisure, the last keyword, always does unless a
\* ring of under three points stops the pass.
C30_OnlyLastKeywordCompletes ==
    (fn = "get_nature.elements" /\ HasGreenRelation)
        => /\ RelationKeyword \in {"landuse", "natural"}
                => ret.kind \in {"KeyError", "AttributeError"}
           /\ RelationKeyword = "leisure"
                => ret.kind \in {"ok", "AttributeError"}

\* C30: a green relation under leisure whose ring is stitched from two
\* halves completes with ways and tags of one length after each pass.
C30_LeisureRelationCompletes ==
    /\ fn = "get_nature.elements"
    /\ HasGreenRelation
    /\ RelationKeyword = "leisure"
    /\ args.features[1].members = <<"w1", "w2">>
    /\ Len(args.features) = 7
    /\ ret.kind = "ok"
    /\ ret.lengths = <<<<0, 0>>, <<0, 0>>, <<1, 1>>>>
    /\ Len(ret.objectGroup) = 1

\* C30: a green relation under leisure none of whose members was retrieved
\* gives an empty ring, which stops the pass with AttributeError.
C30_MissingMemberRaises ==
    /\ fn = "get_nature.elements"
    /\ HasGreenRelation
    /\ RelationKeyword = "leisure"
    /\ args.features[1].members = <<"w7">>
    /\ ret.kind = "AttributeError"
    /\ ret.lengths = <<<<0, 0>>, <<0, 0>>, <<1, 1>>>>

====
